---- MODULE Spec2Model ----
(***************************************************************************)
(* Model of the judging engine of the oj_project repository.               *)
(*                                                                         *)
(* The repository holds three judges, one per Django app:                  *)
(*   "compiler" : compiler/views.py  SecureCodeRunner + evaluate_submission*)
(*   "core"     : core/views.py      run_code + evaluate_submission        *)
(*   "submit"   : submit/views.py    run_code + evaluate_submission        *)
(* One behaviour of Spec is one judging pass of one submission by one of   *)
(* them.  Texts are sequences of one-character strings.                    *)
(***************************************************************************)
EXTENDS Integers, Sequences, FiniteSets, TLC

(***************************************************************************)
(* Bounds of the model.                                                    *)
(***************************************************************************)
MaxDb == 2        \* stored (database) test cases of the problem
MaxFile == 1      \* test cases the parser returns from the file corpus
MaxBlob == 4      \* characters of an enumerated input blob, two more than of an output blob
MaxParseCalls == 3 \* calls of the parser on the same pair of blobs
MaxText == 3      \* characters of an enumerated expected output, one more than of an actual output
MaxSubmissions == 2 \* submissions posted to the web layer
MaxThreads == 2   \* request threads that judge at the same time
MaxRuns == 2      \* run_code calls the judging threads make in all
MaxResolutions == 2 \* run_code calls whose toolchain resolution is followed

(***************************************************************************)
(* Text helpers: Python str methods on sequences of characters.            *)
(***************************************************************************)
\* the characters str.strip(), str.rstrip() and str.lstrip() remove when called
\* without an argument: those for which str.isspace() holds.  Up to U+00FF
\* these are tab, line feed, vertical tab (U+000B), form feed, carriage
\* return, the separators U+001C to U+001F, the space, next line (U+0085) and
\* the no-break space (U+00A0); the characters of a text of the model lie in
\* that range
Whitespace ==
    {" ", "\t", "\n", "\r", "\f", "", "", "", "", "", "", " "}

\* str.rstrip(): drop trailing whitespace
RECURSIVE rstrip(_)
rstrip(s) ==
    IF s = <<>> THEN <<>>
    ELSE IF s[Len(s)] \in Whitespace THEN rstrip(SubSeq(s, 1, Len(s) - 1))
    ELSE s

\* str.lstrip(): drop leading whitespace
RECURSIVE lstrip(_)
lstrip(s) ==
    IF s = <<>> THEN <<>>
    ELSE IF s[1] \in Whitespace THEN lstrip(Tail(s))
    ELSE s

\* str.strip()
strip(s) == lstrip(rstrip(s))

\* text.replace('\r\n', '\n').replace('\r', '\n')
RECURSIVE ReplaceLineEndings(_)
ReplaceLineEndings(s) ==
    IF s = <<>> THEN <<>>
    ELSE IF s[1] = "\r" /\ Len(s) > 1 /\ s[2] = "\n"
         THEN <<"\n">> \o ReplaceLineEndings(SubSeq(s, 3, Len(s)))
    ELSE IF s[1] = "\r" THEN <<"\n">> \o ReplaceLineEndings(Tail(s))
    ELSE <<s[1]>> \o ReplaceLineEndings(Tail(s))

\* str.split('\n'): the lines of s, always at least one
RECURSIVE SplitLines(_)
SplitLines(s) ==
    IF \A i \in 1..Len(s) : s[i] # "\n" THEN <<s>>
    ELSE LET k == CHOOSE i \in 1..Len(s) :
                      s[i] = "\n" /\ \A j \in 1..(i - 1) : s[j] # "\n"
         IN  <<SubSeq(s, 1, k - 1)>> \o SplitLines(SubSeq(s, k + 1, Len(s)))

\* '\n'.join(lines)
RECURSIVE JoinLines(_)
JoinLines(lines) ==
    IF lines = <<>> THEN <<>>
    ELSE IF Len(lines) = 1 THEN lines[1]
    ELSE lines[1] \o <<"\n">> \o JoinLines(Tail(lines))

\* a trailing-line loop that pops one empty line only
PopOneEmptyLine(lines) ==
    IF lines # <<>> /\ lines[Len(lines)] = <<>>
    THEN SubSeq(lines, 1, Len(lines) - 1)
    ELSE lines

\* while lines and not lines[-1]: lines.pop()
RECURSIVE PopEmptyLines(_)
PopEmptyLines(lines) ==
    IF lines = <<>> THEN <<>>
    ELSE IF lines[Len(lines)] = <<>>
         THEN PopEmptyLines(SubSeq(lines, 1, Len(lines) - 1))
    ELSE lines

\* UniversalTestCaseParser.normalize_output (text is not None)
normalize_output(text) ==
    LET normalized == ReplaceLineEndings(text)
        split == SplitLines(normalized)
        lines == [i \in 1..Len(split) |-> rstrip(split[i])]
    IN  JoinLines(PopEmptyLines(lines))

(***************************************************************************)
(* The test case parsers: UniversalTestCaseParser of the compiler app and  *)
(* parse_test_cases_from_files of the core app.  A test case is a record   *)
(* [input, output, case_number]; the None a strategy returns when it does  *)
(* not apply is the empty list, which `if result:` treats the same way.    *)
(***************************************************************************)
NoCases == <<>>

\* str.split('\n\n'): the pieces between non-overlapping separators, left to right
RECURSIVE SplitSections(_)
SplitSections(s) ==
    IF \A i \in 1..(Len(s) - 1) : ~(s[i] = "\n" /\ s[i + 1] = "\n") THEN <<s>>
    ELSE LET k == CHOOSE i \in 1..(Len(s) - 1) :
                      /\ s[i] = "\n" /\ s[i + 1] = "\n"
                      /\ \A j \in 1..(i - 1) : ~(s[j] = "\n" /\ s[j + 1] = "\n")
         IN  <<SubSeq(s, 1, k - 1)>> \o SplitSections(SubSeq(s, k + 2, Len(s)))

\* [x.strip() for x in parts]
StripEach(parts) == [i \in 1..Len(parts) |-> strip(parts[i])]

IsNonEmpty(t) == t # <<>>

\* [x.strip() for x in parts if x.strip()]
NonEmptyStripped(parts) == SelectSeq(StripEach(parts), IsNonEmpty)

\* the dicts built from enumerate(zip(ins, outs)), every text stripped
PairCases(ins, outs) ==
    LET n == IF Len(ins) < Len(outs) THEN Len(ins) ELSE Len(outs)
    IN  [i \in 1..n |-> [input |-> strip(ins[i]), output |-> strip(outs[i]),
                         case_number |-> i]]

\* UniversalTestCaseParser._try_section_parsing
try_section_parsing(input_content, output_content) ==
    LET input_sections == NonEmptyStripped(SplitSections(strip(input_content)))
        output_sections == NonEmptyStripped(SplitSections(strip(output_content)))
        output_lines == NonEmptyStripped(SplitLines(strip(output_content)))
    IN  IF Len(input_sections) > 1 /\ Len(input_sections) = Len(output_sections)
        THEN PairCases(input_sections, output_sections)
        ELSE IF Len(input_sections) > 1 /\ Len(input_sections) = Len(output_lines)
        THEN PairCases(input_sections, output_lines)
        ELSE NoCases

\* UniversalTestCaseParser._try_line_parsing
try_line_parsing(input_content, output_content) ==
    LET input_lines == NonEmptyStripped(SplitLines(strip(input_content)))
        output_lines == NonEmptyStripped(SplitLines(strip(output_content)))
    IN  IF Len(input_lines) = Len(output_lines) /\ Len(input_lines) > 1
        THEN PairCases(input_lines, output_lines)
        ELSE NoCases

\* the loop of _try_intelligent_parsing: stripped non-blank lines are
\* collected into the current group, a blank line closes the group
RECURSIVE GroupLines(_, _, _)
GroupLines(lines, current_group, input_groups) ==
    IF lines = <<>>
    THEN IF current_group # <<>> THEN Append(input_groups, JoinLines(current_group))
         ELSE input_groups
    ELSE LET line == strip(lines[1])
         IN  IF line = <<>>
             THEN IF current_group # <<>>
                  THEN GroupLines(Tail(lines), <<>>,
                                  Append(input_groups, JoinLines(current_group)))
                  ELSE GroupLines(Tail(lines), current_group, input_groups)
             ELSE GroupLines(Tail(lines), Append(current_group, line), input_groups)

\* the cases of _try_intelligent_parsing: inp and out are stored as they are
GroupCases(ins, outs) ==
    [i \in 1..Len(ins) |-> [input |-> ins[i], output |-> outs[i], case_number |-> i]]

\* UniversalTestCaseParser._try_intelligent_parsing
try_intelligent_parsing(input_content, output_content) ==
    LET grouped == GroupLines(SplitLines(strip(input_content)), <<>>, <<>>)
        input_groups == SelectSeq(grouped, LAMBDA g : strip(g) # <<>>)
        output_lines == NonEmptyStripped(SplitLines(strip(output_content)))
    IN  IF Len(input_groups) = Len(output_lines) /\ Len(input_groups) > 1
        THEN GroupCases(input_groups, output_lines)
        ELSE NoCases

\* strategy 4 and method 4: the whole content as one test case
single_test_case(input_content, output_content) ==
    <<[input |-> strip(input_content), output |-> strip(output_content),
       case_number |-> 1]>>

\* `if not input_content.strip() or not output_content.strip(): return []`
EmptyContent(input_content, output_content) ==
    strip(input_content) = <<>> \/ strip(output_content) = <<>>

\* UniversalTestCaseParser.parse_test_cases
parse_test_cases(input_content, output_content) ==
    IF EmptyContent(input_content, output_content) THEN <<>>
    ELSE IF try_section_parsing(input_content, output_content) # NoCases
    THEN try_section_parsing(input_content, output_content)
    ELSE IF try_line_parsing(input_content, output_content) # NoCases
    THEN try_line_parsing(input_content, output_content)
    ELSE IF try_intelligent_parsing(input_content, output_content) # NoCases
    THEN try_intelligent_parsing(input_content, output_content)
    ELSE single_test_case(input_content, output_content)

\* parse_test_cases_from_files, method 1: the sections are not filtered
sections_method(input_content, output_content) ==
    LET input_sections == SplitSections(strip(input_content))
        output_sections == SplitSections(strip(output_content))
    IN  IF Len(input_sections) > 1 /\ Len(input_sections) = Len(output_sections)
        THEN PairCases(input_sections, output_sections)
        ELSE NoCases

\* parse_test_cases_from_files, method 2: the lines are not filtered
lines_method(input_content, output_content) ==
    LET input_lines == SplitLines(strip(input_content))
        output_lines == SplitLines(strip(output_content))
    IN  IF Len(input_lines) = Len(output_lines) /\ Len(input_lines) > 1
        THEN PairCases(input_lines, output_lines)
        ELSE NoCases

\* re.IGNORECASE on the letters of the three keywords
Lower(c) ==
    CASE c = "C" -> "c" [] c = "A" -> "a" [] c = "S" -> "s" [] c = "E" -> "e"
      [] c = "T" -> "t" [] c = "I" -> "i" [] c = "N" -> "n" [] c = "P" -> "p"
      [] c = "U" -> "u" [] OTHER -> c

\* (Case|Test|Input)
Keywords == {<<"c", "a", "s", "e">>, <<"t", "e", "s", "t">>, <<"i", "n", "p", "u", "t">>}

\* \d and \s of a str pattern compiled without re.ASCII: up to U+00FF the
\* decimal digits are 0 to 9, and \s matches the characters of str.isspace()
Digits == {"0", "1", "2", "3", "4", "5", "6", "7", "8", "9"}
RegexSpace == Whitespace

\* the position after the keyword that starts at i, 0 if none does
KeywordEnd(s, i) ==
    LET ends == {i + Len(kw) : kw \in {k \in Keywords :
                     /\ i + Len(k) - 1 <= Len(s)
                     /\ \A j \in 1..Len(k) : Lower(s[i + j - 1]) = k[j]}}
    IN  IF ends = {} THEN 0 ELSE CHOOSE e \in ends : TRUE

\* the first position from j on whose character is not in S
RECURSIVE SkipWhile(_, _, _)
SkipWhile(s, j, S) ==
    IF j <= Len(s) /\ s[j] \in S THEN SkipWhile(s, j + 1, S) ELSE j

\* ^(Case|Test|Input)\s*\d+ with re.MULTILINE: the position after the match
\* that starts at i, 0 if the pattern does not match there
MatchEnd(s, i) ==
    IF ~(i = 1 \/ s[i - 1] = "\n") THEN 0
    ELSE LET k == KeywordEnd(s, i)
             d == SkipWhile(s, k, RegexSpace)
             e == SkipWhile(s, d, Digits)
         IN  IF k # 0 /\ e > d THEN e ELSE 0

\* list(case_pattern.finditer(s)): the non-overlapping matches from `from` on
RECURSIVE FindMatches(_, _)
FindMatches(s, from) ==
    LET starts == {i \in from..Len(s) : MatchEnd(s, i) # 0}
    IN  IF starts = {} THEN <<>>
        ELSE LET i == CHOOSE x \in starts : \A y \in starts : x <= y
             IN  <<[start |-> i, end |-> MatchEnd(s, i)]>> \o FindMatches(s, MatchEnd(s, i))

\* content[matches[i].end() : matches[i + 1].start()] or to the end, stripped
PatternText(content, matches, i) ==
    strip(SubSeq(content, matches[i].end,
                 IF i + 1 <= Len(matches) THEN matches[i + 1].start - 1
                 ELSE Len(content)))

\* parse_test_cases_from_files, method 3
pattern_method(input_content, output_content) ==
    LET input_matches == FindMatches(input_content, 1)
        output_matches == FindMatches(output_content, 1)
    IN  IF Len(input_matches) > 1 /\ Len(input_matches) = Len(output_matches)
        THEN [i \in 1..Len(input_matches) |->
                 [input |-> PatternText(input_content, input_matches, i),
                  output |-> PatternText(output_content, output_matches, i),
                  case_number |-> i]]
        ELSE NoCases

\* parse_test_cases_from_files (the problem has no test_case_format attribute)
parse_test_cases_from_files(input_content, output_content) ==
    IF sections_method(input_content, output_content) # NoCases
    THEN sections_method(input_content, output_content)
    ELSE IF lines_method(input_content, output_content) # NoCases
    THEN lines_method(input_content, output_content)
    ELSE IF pattern_method(input_content, output_content) # NoCases
    THEN pattern_method(input_content, output_content)
    ELSE single_test_case(input_content, output_content)

(***************************************************************************)
(* Values run_code hands back: None, a text, or a raised exception.        *)
(***************************************************************************)
None == [tag |-> "none", text |-> <<>>]
Raised == [tag |-> "raise", text |-> <<>>]
Text(t) == [tag |-> "text", text |-> t]

\* submit/views.py: the strings run_code returns in place of an outcome
TimeLimitText == <<"T", "i", "m", "e", " ", "L", "i", "m", "i", "t", " ",
                   "E", "x", "c", "e", "e", "d", "e", "d">>
CompilationErrorText(stderr) ==
    <<"C", "o", "m", "p", "i", "l", "a", "t", "i", "o", "n", " ",
      "E", "r", "r", "o", "r", ":", "\n">> \o stderr
RuntimeErrorText(msg) ==
    <<"R", "u", "n", "t", "i", "m", "e", " ", "E", "r", "r", "o", "r", ":", " ">> \o msg

(***************************************************************************)
(* Inputs of the model.                                                    *)
(***************************************************************************)
Apps == {"compiler", "core", "submit"}
\* "py" has no compile step, "cpp" has one ("c" takes the same path in every
\* app), "rb" stands for a language tag none of the runners knows
Languages == {"py", "cpp", "rb"}
\* expected outputs stored with a test case
ExpectedTexts == {<<"5", "\n">>, TimeLimitText}
\* what a user program writes to stdout
OutputTexts == {<<"5">>, <<"6">>}
\* what a compiler writes to stderr, and the message of an exception
StderrText == <<"e">>

\* the languages each run_code dispatches on
Supported(a, lang) ==
    IF a = "compiler" THEN lang \in {"py", "python", "cpp", "c", "java", "js", "javascript"}
    ELSE lang \in {"py", "cpp", "c"}

\* the languages whose runner has a compile step
Compiled(a, lang) ==
    IF a = "compiler" THEN lang \in {"cpp", "c", "java"}
    ELSE lang \in {"cpp", "c"}

VARIABLES
    app,        \* which judge runs this pass
    language,   \* the language tag of the submission
    dbCases,    \* problem.testcases in their Meta ordering: [output, is_hidden]
    files,      \* [input, output]: do inputs/<code>.txt and outputs/<code>.txt exist
    fileCases,  \* expected outputs of the cases the parser returns for the corpus
    pc,         \* position of the judge; "hung" when a blocking call of the run
                \* it is in never returns
    phase,      \* "db" or "file": the loop the judge is in
    idx,        \* number of cases the current loop has fetched
    calls,      \* one record per run_code invocation, the last one is the current;
                \* how the cleanup step went is kept for the current one only
    returned,   \* the value the last run_code call returned to the judge
    disk,       \* workspaces that exist on disk
    verdict,    \* "none" until the judge returns
    input_content,   \* the text of inputs/<code>.txt handed to the parser
    output_content,  \* the text of outputs/<code>.txt handed to the parser
    pstep,      \* position of the parser, "idle" while it is not called
    parsed,     \* one record [cases, strategy, input, output] per parser call
                \* that has returned: what it returned and its two arguments
    comparison, \* [expected, actual, db, file, norm]: two texts, what the comparison
                \* of each pass made of them, and the normalize_output calls made
    resolving,  \* [probed, result, run, previous]: the probes the toolchain
                \* resolution of the current run has made, what it returned, the
                \* number of the run and what the resolution of the run before returned
    store,      \* the Submission records: for each submission the verdicts its
                \* row was given, in order, and the mark of its deletion
    web,        \* the request thread of each submission: [pc, verdict, code,
                \* language, invoked]
    seen,       \* the verdicts a reader of each record has been shown
    runs,       \* the run_code call each concurrent judging thread is in
    fsys,       \* the files on disk: [dir, name, data, owner]
    issued,     \* number of uuid4 values drawn so far
    review      \* one AI review request: the model being tried, the attempt, the
                \* last response, the results the models tried have returned, the
                \* number of requests sent to each model and the response of the view

\* the state of the parser
parserVars == <<input_content, output_content, pstep, parsed>>

\* the state of the judge and the runner
judgeVars == <<app, language, dbCases, files, fileCases, pc, phase, idx, calls,
               returned, disk, verdict>>

\* the state of the web layer and of the concurrent runs
serviceVars == <<resolving, store, web, seen, runs, fsys, issued, review>>

vars == <<app, language, dbCases, files, fileCases, pc, phase, idx, calls,
          returned, disk, verdict, input_content, output_content, pstep, parsed,
          comparison, resolving, store, web, seen, runs, fsys, issued, review>>

\* no toolchain resolution is under way
NoResolving ==
    [probed |-> <<>>, result |-> [tag |-> "idle", index |-> 0],
     run |-> 0, previous |-> [tag |-> "idle", index |-> 0]]

\* no AI review is under way
NoReview ==
    [state |-> "idle", model |-> 0, attempt |-> 0, last |-> "none",
     results |-> <<>>, sent |-> <<>>, response |-> "none"]

\* no request is being served and no concurrent run is under way
IdleService ==
    /\ resolving = NoResolving
    /\ store = <<>>
    /\ web = <<>>
    /\ seen = <<>>
    /\ runs = <<>>
    /\ fsys = {}
    /\ issued = 0
    /\ review = NoReview

\* no pair of texts is under comparison
NoComparison ==
    [expected |-> <<>>, actual |-> <<>>, db |-> "none", file |-> "none", norm |-> <<>>]

NoWs == 0

RECURSIVE SeqsUpTo(_, _)
\* all sequences over S of length at most n
SeqsUpTo(S, n) ==
    IF n = 0 THEN {<<>>}
    ELSE LET shorter == SeqsUpTo(S, n - 1)
         IN  shorter \cup {Append(s, x) : s \in {t \in shorter : Len(t) = n - 1}, x \in S}

\* the values of TestCase.order
OrderValues == 0..MaxDb

DbCaseValues == [output : ExpectedTexts, is_hidden : BOOLEAN, order : OrderValues]

\* oj_project/core/models.py: ordering by order, unique_together (problem, order);
\* the stored cases of a problem are numbered 1, 2, ...
StoredCaseLists ==
    {s \in SeqsUpTo(DbCaseValues, MaxDb) : \A i \in DOMAIN s : s[i].order = i}

\* core/models.py: ordering by order, default 0, no uniqueness constraint; the
\* queryset yields the cases by ascending order, cases of equal order in an
\* order the database chooses
LegacyCaseLists ==
    {s \in SeqsUpTo(DbCaseValues, MaxDb) :
        /\ \A i \in DOMAIN s :
               s[i].order \in {0, 1} /\ ~s[i].is_hidden /\ s[i].output = <<"5", "\n">>
        /\ \A i \in 1..(Len(s) - 1) : s[i].order <= s[i + 1].order}

\* core/views.py:457  problem.testcases.filter(is_hidden=False); the other
\* judges iterate problem.testcases.all().  The result lists positions in dbCases.
RECURSIVE VisibleIndexes(_, _)
VisibleIndexes(cases, from) ==
    IF from > Len(cases) THEN <<>>
    ELSE IF cases[from].is_hidden THEN VisibleIndexes(cases, from + 1)
    ELSE <<from>> \o VisibleIndexes(cases, from + 1)

AllIndexes(cases) == [i \in 1..Len(cases) |-> i]

JudgedDbIndexes(a, cases) ==
    IF a = "core" THEN VisibleIndexes(cases, 1) ELSE AllIndexes(cases)

\* the positions the current loop iterates over
LoopIndexes ==
    IF phase = "db" THEN JudgedDbIndexes(app, dbCases) ELSE AllIndexes(fileCases)

ExpectedOf(ph, n) == IF ph = "db" THEN dbCases[n].output ELSE fileCases[n]

Cur == calls[Len(calls)]

InitJudge(caseLists) ==
    /\ app \in Apps
    /\ language \in Languages
    /\ dbCases \in caseLists
    /\ files \in [input : BOOLEAN, output : BOOLEAN]
    /\ fileCases \in SeqsUpTo(ExpectedTexts, MaxFile)
    \* the parser is only reached when both files exist
    /\ ~(files.input /\ files.output) => fileCases = <<>>
    \* core's parse_test_cases_from_files always returns at least one case
    /\ (app = "core" /\ files.input /\ files.output) => fileCases # <<>>
    \* submit's judge has no file corpus phase
    /\ app = "submit" => (files = [input |-> FALSE, output |-> FALSE])
    /\ pc = "start"
    /\ phase = "db"
    /\ idx = 0
    /\ calls = <<>>
    /\ returned = None
    /\ disk = {}
    /\ verdict = "none"
    /\ input_content = <<>>
    /\ output_content = <<>>
    /\ pstep = "idle"
    /\ parsed = <<>>
    /\ comparison = NoComparison
    /\ IdleService

\* a judging pass over a problem of the project's schema
Init == InitJudge(StoredCaseLists)

(***************************************************************************)
(* The Runner: run_code of each app, one action per step of its body.      *)
(***************************************************************************)
NewCall(ph, n) ==
    [phase |-> ph, n |-> n, kind |-> "running", compiled |-> FALSE,
     started |-> FALSE, result |-> None, ws |-> NoWs, cleanupFailed |-> FALSE,
     existsRaised |-> FALSE, exit |-> "none",
     ignoresTerm |-> FALSE, killed |-> FALSE, child |-> "none",
     signals |-> <<>>, alive |-> {}]

\* what the body of run_code returns when a step fails with the given kind:
\* compiler and core return None on every failure path, submit a message
FailureResult(a, kind) ==
    IF a # "submit" THEN None
    ELSE IF kind \in {"timeout", "compile_timeout"} THEN Text(TimeLimitText)
    ELSE IF kind = "compile_error" THEN Text(CompilationErrorText(StderrText))
    ELSE Text(RuntimeErrorText(StderrText))

\* what the body returns once the program has exited with the given code and
\* the file was read back as the text `out`: compiler and core check the
\* return code, submit reads the output file always
ExecResult(a, exitZero, out) ==
    IF a = "submit" THEN Text(out)
    ELSE IF exitZero THEN Text(out)
    ELSE None

\* the step that follows the creation of the workspace
AfterEnter(a, lang) ==
    IF a = "compiler" THEN (IF Supported(a, lang) THEN "resolve" ELSE "unsupported")
    ELSE "write"

\* the step that follows the writing of the source and input files
AfterWrite(a, lang) ==
    IF a = "core" THEN "resolve"
    ELSE IF Compiled(a, lang) THEN "compile"
    ELSE IF Supported(a, lang) THEN "exec"
    ELSE "unsupported"

\* the step that follows a successful toolchain probe
AfterResolve(a, lang) ==
    IF a = "compiler" THEN "write"
    ELSE IF Compiled(a, lang) THEN "compile"
    ELSE "exec"

SetCur(r) == [calls EXCEPT ![Len(calls)] = r]

\* the body of run_code ends with `result`; its finally block runs next
Finish(kind, result) ==
    /\ calls' = SetCur([Cur EXCEPT !.kind = kind, !.result = result])
    /\ pc' = "cleanup"

\* continue with step `next`, or end at once for a language with no branch:
\* compiler returns None, submit reads back the output file it created empty
Goto(next) ==
    IF next = "unsupported"
    THEN Finish("unsupported", IF app = "submit" THEN Text(<<>>) ELSE None)
    ELSE /\ pc' = next
         /\ UNCHANGED calls

\* compiler: temp_dir.mkdir; core: tempfile.mkdtemp; submit: dir_path.mkdir
\* (outside the try block, so its failure leaves run_code as an exception)
RunEnter ==
    /\ pc = "enter"
    /\ \E ok \in BOOLEAN :
         IF ok
         THEN /\ disk' = disk \cup {Len(calls)}
              /\ LET next == AfterEnter(app, language)
                     c == [Cur EXCEPT !.ws = Len(calls)]
                 IN  IF next = "unsupported"
                     THEN /\ calls' = SetCur([c EXCEPT !.kind = "unsupported"])
                          /\ pc' = "cleanup"
                     ELSE /\ calls' = SetCur(c)
                          /\ pc' = next
              /\ UNCHANGED returned
         ELSE /\ disk' = disk
              /\ calls' = SetCur([Cur EXCEPT !.kind = "fault",
                                             !.result = IF app = "submit" THEN Raised
                                                        ELSE None])
              /\ IF app = "submit"
                 THEN pc' = "compare" /\ returned' = Raised
                 ELSE pc' = "cleanup" /\ UNCHANGED returned
    /\ UNCHANGED <<app, language, dbCases, files, fileCases, phase, idx, verdict>>
    /\ UNCHANGED <<parserVars, comparison, serviceVars>>

\* compiler: _find_python, _find_cpp_compiler, ...; core: the --version probes
ResolveToolchain ==
    /\ pc = "resolve"
    /\ \E found \in BOOLEAN :
         IF found THEN Goto(AfterResolve(app, language))
         ELSE Finish("unavailable", FailureResult(app, "unavailable"))
    /\ UNCHANGED <<app, language, dbCases, files, fileCases, phase, idx,
                   returned, disk, verdict>>
    /\ UNCHANGED <<parserVars, comparison, serviceVars>>

\* writing the source and the input file; in core the source path is unbound
\* for a language other than py, cpp, c and the open() raises
WriteFiles ==
    /\ pc = "write"
    /\ IF app = "core" /\ ~Supported(app, language)
       THEN Finish("unsupported", None)
       ELSE \E ok \in BOOLEAN :
              IF ok THEN Goto(AfterWrite(app, language))
              ELSE Finish("fault", FailureResult(app, "fault"))
    /\ UNCHANGED <<app, language, dbCases, files, fileCases, phase, idx,
                   returned, disk, verdict>>
    /\ UNCHANGED <<parserVars, comparison, serviceVars>>

\* how a compiler invocation can end; submit has no probe, a missing
\* toolchain shows as FileNotFoundError here
CompileOutcomes(a) ==
    {"ok", "compile_error", "compile_timeout", "fault"}
        \cup (IF a = "submit" THEN {"unavailable"} ELSE {})

Compile ==
    /\ pc = "compile"
    /\ \E o \in CompileOutcomes(app) :
         IF o = "ok"
         THEN /\ calls' = SetCur([Cur EXCEPT !.compiled = TRUE])
              /\ pc' = "exec"
         ELSE /\ calls' = SetCur([Cur EXCEPT !.compiled = (o \in {"compile_error", "compile_timeout"}),
                                             !.kind = o,
                                             !.result = FailureResult(app, o)])
              /\ pc' = "cleanup"
    /\ UNCHANGED <<app, language, dbCases, files, fileCases, phase, idx,
                   returned, disk, verdict>>
    /\ UNCHANGED <<parserVars, comparison, serviceVars>>

\* how starting the program can end: the process runs, or the opening of
\* the redirection files or the spawn fails; in submit a missing interpreter
\* shows as FileNotFoundError here
ExecOutcomes(a, lang) ==
    {"started", "fault"}
        \cup (IF a = "submit" /\ ~Compiled(a, lang) THEN {"unavailable"} ELSE {})

\* opening the redirection files and spawning the program
StartProgram ==
    /\ pc = "exec"
    /\ \E o \in ExecOutcomes(app, language) :
         IF o = "started"
         THEN /\ calls' = SetCur([Cur EXCEPT !.started = TRUE])
              /\ pc' = "wait"
         ELSE Finish(o, FailureResult(app, o))
    /\ UNCHANGED <<app, language, dbCases, files, fileCases, phase, idx,
                   returned, disk, verdict>>
    /\ UNCHANGED <<parserVars, comparison, serviceVars>>

\* how the wait for the program ends: it exits with code 0 or another code,
\* or the execution timeout expires first
WaitOutcomes == {"zero", "nonzero", "timeout"}

\* what follows the exit of the program: compiler reads the error file after
\* a non-zero exit and the output file after exit 0, core returns None on a
\* non-zero exit without reading and reads the output file after exit 0,
\* submit does not look at the exit code and reads the output file
AfterExit(a, exit) ==
    IF a = "core" /\ exit = "nonzero" THEN "cleanup" ELSE "readback"

\* process.wait(timeout=...) / subprocess.run(..., timeout=...)
WaitProgram ==
    /\ pc = "wait"
    /\ \E o \in WaitOutcomes :
         IF o = "timeout"
         THEN pc' = "expired" /\ UNCHANGED calls
         ELSE /\ calls' = SetCur(IF AfterExit(app, o) = "cleanup"
                                 THEN [Cur EXCEPT !.exit = o, !.kind = o,
                                                  !.result = ExecResult(app, FALSE, <<>>)]
                                 ELSE [Cur EXCEPT !.exit = o])
              /\ pc' = AfterExit(app, o)
    /\ UNCHANGED <<app, language, dbCases, files, fileCases, phase, idx,
                   returned, disk, verdict>>
    /\ UNCHANGED <<parserVars, comparison, serviceVars>>

\* a forked child of the user program: none, one that dies on the termination
\* signal, one that ignores it; it stays in the process group of its parent
Children == {"none", "obeys", "ignores"}

\* the processes of the user program that run when the timeout expires
Processes(child) == IF child = "none" THEN {"leader"} ELSE {"leader", "child"}

\* a signal the runner sends: to the process group or to the one process it started
TermGroup == [sig |-> "TERM", to |-> "group"]
KillGroup == [sig |-> "KILL", to |-> "group"]
KillProcess == [sig |-> "KILL", to |-> "process"]

\* the processes of a set that stay alive when it receives the termination signal
SurvivorsOfTerm(procs, ignores, child) ==
    {p \in procs : \/ p = "leader" /\ ignores
                   \/ p = "child" /\ child = "ignores"}

\* what the runner sends when the execution timeout expires: the compiler app
\* os.killpg(pgid, SIGTERM); subprocess.run in core and submit process.kill()
FirstSignal(a) == IF a = "compiler" THEN TermGroup ELSE KillProcess

\* the processes alive after that signal
AliveAfterFirstSignal(a, ignores, child) ==
    IF a = "compiler" THEN SurvivorsOfTerm(Processes(child), ignores, child)
    ELSE Processes(child) \ {"leader"}

\* what follows the expiry of the execution timeout: the compiler app signals
\* the process group and waits for it, subprocess.run in core and submit
\* kills and reaps the child before raising TimeoutExpired
AfterTimeout(a) == IF a = "compiler" THEN "grace" ELSE "cleanup"

\* the execution timeout has expired and the runner sends its first signal;
\* the program dies on the termination signal or ignores it
SendFirstSignal ==
    /\ pc = "expired"
    /\ \E ignores \in (IF app = "compiler" THEN BOOLEAN ELSE {FALSE}),
          child \in Children :
         /\ calls' = SetCur([Cur EXCEPT !.kind = "timeout",
                                        !.result = FailureResult(app, "timeout"),
                                        !.ignoresTerm = ignores,
                                        !.child = child,
                                        !.signals = <<FirstSignal(app)>>,
                                        !.alive = AliveAfterFirstSignal(app, ignores, child)])
         /\ pc' = AfterTimeout(app)
    /\ UNCHANGED <<app, language, dbCases, files, fileCases, phase, idx,
                   returned, disk, verdict>>
    /\ UNCHANGED <<parserVars, comparison, serviceVars>>

\* how reading a file back by its path can end.  The program that has just
\* exited had the workspace as its working directory: the file is read as a
\* text (the empty text when compiler finds no file), the open or the read
\* raises (the file cannot be opened, core: it does not decode as UTF-8), or
\* the open blocks - the program has put a FIFO at the path, and no open
\* has a timeout
ReadBackOutcomes == {"read", "raises", "blocks"}

\* what the body returns after the read-back: the text read, or what its
\* `except Exception` makes of the error
ReadBackResult(a, exit, o, out) ==
    IF o = "read" THEN ExecResult(a, exit = "zero", out)
    ELSE IF a = "submit" THEN FailureResult(a, "fault")
    ELSE None

\* the kind of run the read-back leaves: a non-zero exit stays one, a read
\* error after exit 0 is a fault of the runner
ReadBackKind(exit, o) ==
    IF exit = "nonzero" THEN "nonzero"
    ELSE IF o = "read" THEN "success"
    ELSE "fault"

\* reading back the error file (compiler, non-zero exit) or the output file
ReadBackFile ==
    /\ pc = "readback"
    /\ \E o \in ReadBackOutcomes :
         IF o = "blocks"
         THEN pc' = "hung" /\ UNCHANGED calls
         ELSE \E out \in (IF o = "read" /\ ExecResult(app, Cur.exit = "zero", <<>>) # None
                          THEN OutputTexts ELSE {<<>>}) :
                Finish(ReadBackKind(Cur.exit, o), ReadBackResult(app, Cur.exit, o, out))
    /\ UNCHANGED <<app, language, dbCases, files, fileCases, phase, idx,
                   returned, disk, verdict>>
    /\ UNCHANGED <<parserVars, comparison, serviceVars>>

\* process.wait(timeout=5) after the termination signal: left when the
\* process exits, and by TimeoutExpired when it does not
WaitLeft(exited) == TRUE

\* an escalation that sends the kill signal whatever the grace wait gave
StillAliveAlways(c) == TRUE

\* `except subprocess.TimeoutExpired` of the grace wait: the process the
\* runner started has not exited
StillAlive(c) == "leader" \in c.alive

\* the grace wait of the timeout escalation; when the started process is
\* still alive after it the whole group gets the kill signal, which is not
\* waited for
GraceWait ==
    /\ pc = "grace"
    /\ WaitLeft(~Cur.ignoresTerm)
    /\ calls' = SetCur(IF StillAlive(Cur)
                       THEN [Cur EXCEPT !.killed = TRUE,
                                        !.signals = Append(Cur.signals, KillGroup),
                                        !.alive = {}]
                       ELSE Cur)
    /\ pc' = "cleanup"
    /\ UNCHANGED <<app, language, dbCases, files, fileCases, phase, idx,
                   returned, disk, verdict>>
    /\ UNCHANGED <<parserVars, comparison, serviceVars>>

\* what the existence test of the finally block can give.  It looks at the
\* file system as the program that just ran has left it: a workspace that
\* was made is found, or not found (the program removed or renamed it, or
\* made the directory above it unsearchable).  The compiler app calls
\* Path.exists(), which hands on every OSError other than "no such file",
\* so an unsearchable parent makes its test raise; core calls
\* os.path.exists(), which answers False on every error; submit tests
\* inside its try block.  Without a workspace the test cannot answer True.
ExistsOutcomes(a, c) ==
    (IF c.ws # NoWs THEN {"true"} ELSE {})
        \cup {"false"}
        \cup (IF a = "compiler" THEN {"raises"} ELSE {})

\* what a test that did not answer True leaves of the workspace: nothing is
\* removed by run_code; the directory is still there, or the program has
\* removed it
SkippedRemoval(d, c) ==
    IF c.ws \in d THEN {d, d \ {c.ws}} ELSE {d}

\* finally: `if temp_dir and temp_dir.exists()` - the removal is attempted
\* on every path on which the workspace was created
CleanupAttempted(c, probe) == probe = "true"

\* the value run_code hands back after its finally block: the removal runs
\* inside try/except and its failure is swallowed, the existence test runs
\* outside of it and its exception replaces the value of the body
RunReturn(bodyResult, probe, removed) ==
    IF probe = "raises" THEN Raised ELSE bodyResult

Cleanup ==
    /\ pc = "cleanup"
    /\ \E probe \in ExistsOutcomes(app, Cur) :
         IF CleanupAttempted(Cur, probe)
         THEN \E failed \in BOOLEAN :
                /\ disk' = IF failed THEN disk ELSE disk \ {Cur.ws}
                /\ calls' = SetCur([Cur EXCEPT !.cleanupFailed = failed])
                /\ returned' = RunReturn(Cur.result, probe, ~failed)
         ELSE /\ disk' \in SkippedRemoval(disk, Cur)
              /\ calls' = SetCur([Cur EXCEPT !.existsRaised = (probe = "raises")])
              /\ returned' = RunReturn(Cur.result, probe, TRUE)
    /\ pc' = "compare"
    /\ UNCHANGED <<app, language, dbCases, files, fileCases, phase, idx, verdict>>
    /\ UNCHANGED <<parserVars, comparison, serviceVars>>

(***************************************************************************)
(* The Evaluator: evaluate_submission of each app.                         *)
(***************************************************************************)
\* the comparison each judge makes between expected and actual output
OutputsMatch(a, ph, expected, actual) ==
    IF a = "compiler" THEN normalize_output(expected) = normalize_output(actual)
    ELSE IF a = "core" /\ ph = "db"
         THEN ReplaceLineEndings(strip(expected)) = ReplaceLineEndings(strip(actual))
    ELSE strip(expected) = strip(actual)

\* a loop body that logs a wrong answer but lacks the `return 'WA'`
CaseVerdictNoStop(a, ph, ret, expected) ==
    IF ret.tag # "text" THEN "RE" ELSE "OK"

\* a stored-case loop that logs a failing case and goes on, leaving the
\* decision to the file pass
CaseVerdictDbLenient(a, ph, ret, expected) ==
    IF ph = "db" THEN "OK"
    ELSE IF ret.tag # "text" THEN "RE"
    ELSE IF ~OutputsMatch(a, ph, expected, ret.text) THEN "WA"
    ELSE "OK"

\* the decision of the loop body for one case: "RE" and "WA" are returned at
\* once, "OK" continues with the next case.  An exception that reaches the
\* judge is caught by its `except Exception` and gives "RE".
CaseVerdict(a, ph, ret, expected) ==
    IF ret.tag # "text" THEN "RE"
    ELSE IF ~OutputsMatch(a, ph, expected, ret.text) THEN "WA"
    ELSE "OK"

JudgeStart ==
    /\ pc = "start"
    /\ pc' = "next"
    /\ UNCHANGED <<app, language, dbCases, files, fileCases, phase, idx, calls,
                   returned, disk, verdict>>
    /\ UNCHANGED <<parserVars, comparison, serviceVars>>

\* the loop takes its next test case and calls run_code on it
\* the records of the calls that have returned, as the pass keeps them: how
\* the cleanup step of a call went is kept for the current call only, what
\* it left behind is on disk
Settled(cs) ==
    [i \in DOMAIN cs |-> [cs[i] EXCEPT !.cleanupFailed = FALSE,
                                       !.existsRaised = FALSE]]

FetchCase ==
    /\ pc = "next"
    /\ idx < Len(LoopIndexes)
    /\ idx' = idx + 1
    /\ calls' = Append(Settled(calls), NewCall(phase, LoopIndexes[idx + 1]))
    /\ pc' = "enter"
    /\ UNCHANGED <<app, language, dbCases, files, fileCases, phase, returned,
                   disk, verdict>>
    /\ UNCHANGED <<parserVars, comparison, serviceVars>>

\* the judge compares what run_code returned with the expected output
JudgeCase ==
    /\ pc = "compare"
    /\ LET v == CaseVerdict(app, phase, returned, ExpectedOf(phase, Cur.n))
       IN  IF v = "OK"
           THEN pc' = "next" /\ UNCHANGED verdict
           ELSE pc' = "done" /\ verdict' = v
    /\ UNCHANGED <<app, language, dbCases, files, fileCases, phase, idx, calls,
                   returned, disk>>
    /\ UNCHANGED <<parserVars, comparison, serviceVars>>

\* the loop over the stored cases is exhausted
DbPhaseDone ==
    /\ pc = "next"
    /\ phase = "db"
    /\ idx = Len(LoopIndexes)
    /\ IF app = "submit"
       THEN pc' = "done" /\ verdict' = "AC"
       ELSE pc' = "files" /\ UNCHANGED verdict
    /\ UNCHANGED <<app, language, dbCases, files, fileCases, phase, idx, calls,
                   returned, disk>>
    /\ UNCHANGED <<parserVars, comparison, serviceVars>>

\* a file evaluation without its `except Exception`: the error leaves the
\* evaluator
EvaluationFaultRaises(a) == "raised"

\* what the evaluator returns when a step of the file evaluation raises:
\* `except Exception as e: ... return 'RE'`
EvaluationFault(a) == "RE"

\* `not input_file.exists() or not output_file.exists()`: both files are
\* there, one is missing, or Path.exists() raises because a directory of
\* the corpus cannot be searched
FileTestOutcomes(f) ==
    {IF f.input /\ f.output THEN "true" ELSE "false", "raises"}

\* evaluate_file_test_cases: without the files the pass is accepted; an
\* existence test that raises is caught like every other fault
FindTestFiles ==
    /\ pc = "files"
    /\ \E found \in FileTestOutcomes(files) :
         IF found = "true" THEN pc' = "read" /\ UNCHANGED verdict
         ELSE /\ pc' = "done"
              /\ verdict' = IF found = "false" THEN "AC" ELSE EvaluationFault(app)
    /\ UNCHANGED <<app, language, dbCases, files, fileCases, phase, idx, calls,
                   returned, disk>>
    /\ UNCHANGED <<parserVars, comparison, serviceVars>>

\* reading both files and parsing them; a read error is caught and gives
\* "RE", and so does an empty parse result in the compiler app
ReadAndParse ==
    /\ pc = "read"
    /\ \E readable \in BOOLEAN :
         IF readable /\ fileCases # <<>>
         THEN /\ phase' = "file"
              /\ idx' = 0
              /\ pc' = "next"
              /\ UNCHANGED verdict
         ELSE /\ pc' = "done"
              /\ verdict' = IF readable THEN "RE" ELSE EvaluationFault(app)
              /\ UNCHANGED <<phase, idx>>
    /\ UNCHANGED <<app, language, dbCases, files, fileCases, calls, returned, disk>>
    /\ UNCHANGED <<parserVars, comparison, serviceVars>>

\* the loop over the file cases is exhausted
FilePhaseDone ==
    /\ pc = "next"
    /\ phase = "file"
    /\ idx = Len(LoopIndexes)
    /\ pc' = "done"
    /\ verdict' = "AC"
    /\ UNCHANGED <<app, language, dbCases, files, fileCases, phase, idx, calls,
                   returned, disk>>
    /\ UNCHANGED <<parserVars, comparison, serviceVars>>

Next ==
    \/ JudgeStart
    \/ FetchCase
    \/ RunEnter
    \/ ResolveToolchain
    \/ WriteFiles
    \/ Compile
    \/ StartProgram
    \/ WaitProgram
    \/ SendFirstSignal
    \/ ReadBackFile
    \/ GraceWait
    \/ Cleanup
    \/ JudgeCase
    \/ DbPhaseDone
    \/ FindTestFiles
    \/ ReadAndParse
    \/ FilePhaseDone

Spec == Init /\ [][Next]_vars

\* the judging passes of the compiler app alone
InitCompiler == Init /\ app = "compiler"

SpecCompiler == InitCompiler /\ [][Next]_vars

\* the worker keeps executing the judge: every step of a pass is a bounded
\* computation or a blocking call, so a pass that can take a step takes one
\* passes over a problem with one visible stored case and at most one file
\* case, each expecting the text "5\n"
InitFair ==
    /\ Init
    /\ Len(dbCases) = 1
    /\ ~dbCases[1].is_hidden
    /\ dbCases[1].output = <<"5", "\n">>
    /\ Len(fileCases) <= 1
    /\ \A i \in DOMAIN fileCases : fileCases[i] = <<"5", "\n">>

FairSpec == InitFair /\ [][Next]_vars /\ WF_vars(Next)

\* a judging pass of the compiler app over a problem stored with the TestCase
\* model of core/models.py
InitLegacy == InitJudge(LegacyCaseLists) /\ app = "compiler"

SpecLegacy == InitLegacy /\ [][Next]_vars

(***************************************************************************)
(* The parser as the judge calls it: one action per strategy.  A behaviour *)
(* of SpecParse is a sequence of calls of one app's parser on one pair of  *)
(* blobs.                                                                  *)
(***************************************************************************)
\* the characters of the enumerated blobs
BlobAlphabet == {"1", " ", "\n"}

\* blobs that show the strategies with more than one character per case
ExampleInputs ==
    { <<"1", "\n", "2", "\n", "3">>,
      <<"2", "\n", "1", "\n", "2">>,
      <<"1", "\n", "1", "\n", " ", "\n", "1">>,
      <<"1", "\n", "\n", "\n", "\n", "1">>,
      <<"C", "a", "s", "e", "1", "\n", "1", "\n", "1", "\n",
        "C", "a", "s", "e", "2", "\n", "1">> }
ExampleOutputs ==
    { <<"1", "\n", "2", "\n", "3">>,
      <<"1", "\n", "1">>,
      <<"1", "\n", "2">>,
      <<"1", "\n", "\n", "1">>,
      <<"C", "a", "s", "e", "1", " ", "1", "\n", "C", "a", "s", "e", "2", " ", "1">> }

InputBlobs == SeqsUpTo(BlobAlphabet, MaxBlob) \cup ExampleInputs
OutputBlobs == SeqsUpTo(BlobAlphabet, MaxBlob - 2) \cup ExampleOutputs

\* the apps whose judge parses a file corpus
ParsingApps == {"compiler", "core"}

\* the judge has found both files and read them
InitParse ==
    /\ app \in ParsingApps
    /\ language = "py"
    /\ dbCases = <<>>
    /\ files = [input |-> TRUE, output |-> TRUE]
    /\ fileCases = <<>>
    /\ pc = "read"
    /\ phase = "db"
    /\ idx = 0
    /\ calls = <<>>
    /\ returned = None
    /\ disk = {}
    /\ verdict = "none"
    /\ input_content \in InputBlobs
    /\ output_content \in OutputBlobs
    /\ pstep = "begin"
    /\ parsed = <<>>
    /\ comparison = NoComparison
    /\ IdleService

\* a detector that tries the line strategy before the section strategy
StrategyOrderLinesFirst == <<"lines", "sections", "third">>

\* the order in which both parsers try their strategies
StrategyOrder == <<"sections", "lines", "third">>

\* what strategy k of app a returns for the two blobs
StrategyCases(a, k, ic, oc) ==
    IF a = "compiler"
    THEN CASE k = "sections" -> try_section_parsing(ic, oc)
           [] k = "lines" -> try_line_parsing(ic, oc)
           [] k = "third" -> try_intelligent_parsing(ic, oc)
    ELSE CASE k = "sections" -> sections_method(ic, oc)
           [] k = "lines" -> lines_method(ic, oc)
           [] k = "third" -> pattern_method(ic, oc)

\* the step taken when strategy k did not apply
AfterStrategy(k) ==
    LET i == CHOOSE j \in DOMAIN StrategyOrder : StrategyOrder[j] = k
    IN  IF i < Len(StrategyOrder) THEN StrategyOrder[i + 1] ELSE "fallback"

\* a parser that appends to a list it keeps between its calls
ReturnedListKept(cases) ==
    IF parsed = <<>> THEN cases ELSE parsed[Len(parsed)].cases \o cases

\* the list a call returns is built by that call alone
ReturnedList(cases) == cases

ParseReturn(cases, strategy) ==
    /\ parsed' = Append(parsed, [cases |-> ReturnedList(cases), strategy |-> strategy,
                                 input |-> input_content, output |-> output_content])
    /\ pstep' = "returned"

\* one strategy: return its cases if it applies, else go on
TryStrategy(k) ==
    /\ LET result == StrategyCases(app, k, input_content, output_content)
       IN  IF result # NoCases THEN ParseReturn(result, k)
           ELSE pstep' = AfterStrategy(k) /\ UNCHANGED parsed
    /\ UNCHANGED <<input_content, output_content>>
    /\ UNCHANGED <<judgeVars, comparison, serviceVars>>

\* entry of the parser; the compiler app returns [] for blank content
ParseBegin ==
    /\ pstep = "begin"
    /\ IF app = "compiler" /\ EmptyContent(input_content, output_content)
       THEN ParseReturn(<<>>, "empty")
       ELSE pstep' = StrategyOrder[1] /\ UNCHANGED parsed
    /\ UNCHANGED <<input_content, output_content>>
    /\ UNCHANGED <<judgeVars, comparison, serviceVars>>

\* the double-newline sections
TrySections ==
    /\ pstep = "sections"
    /\ TryStrategy("sections")

\* one test case per line
TryLines ==
    /\ pstep = "lines"
    /\ TryStrategy("lines")

\* _try_intelligent_parsing in the compiler app, the Case/Test/Input pattern in core
TryThird ==
    /\ pstep = "third"
    /\ TryStrategy("third")

\* no strategy applied: the whole content is one test case
ParseFallback ==
    /\ pstep = "fallback"
    /\ ParseReturn(single_test_case(input_content, output_content), "single")
    /\ UNCHANGED <<input_content, output_content>>
    /\ UNCHANGED <<judgeVars, comparison, serviceVars>>

\* the same files are parsed again, as by the judging of another submission
ParseAgain ==
    /\ pstep = "returned"
    /\ Len(parsed) < MaxParseCalls
    /\ pstep' = "begin"
    /\ UNCHANGED <<input_content, output_content, parsed>>
    /\ UNCHANGED <<judgeVars, comparison, serviceVars>>

NextParse ==
    \/ ParseBegin
    \/ TrySections
    \/ TryLines
    \/ TryThird
    \/ ParseFallback
    \/ ParseAgain

SpecParse == InitParse /\ [][NextParse]_vars

\* the calls of UniversalTestCaseParser alone
InitParseCompiler == InitParse /\ app = "compiler"

SpecParseCompiler == InitParseCompiler /\ [][NextParse]_vars

\* the corpora of the problems whose submissions are judged one after another
CorpusInputs ==
    { <<"1", "\n", "2", "\n", "3">>,
      <<"1", "\n", "\n", "1">>,
      <<"1", "\n", "1", "\n", " ", "\n", "1">>,
      <<"C", "a", "s", "e", "1", "\n", "1", "\n", "1", "\n",
        "C", "a", "s", "e", "2", "\n", "1">> }
CorpusOutputs ==
    { <<"1", "\n", "2", "\n", "3">>,
      <<"1", "\n", "2">>,
      <<"1", "\n", "\n", "1">>,
      <<"C", "a", "s", "e", "1", " ", "1", "\n", "C", "a", "s", "e", "2", " ", "1">> }

\* the judge has read the files of one of these problems
InitReparse ==
    /\ InitParse
    /\ input_content \in CorpusInputs
    /\ output_content \in CorpusOutputs

\* the next judging pass reads the files of its problem, the same problem
\* or another one, and calls the parser on them
ParseOther ==
    /\ pstep = "returned"
    /\ Len(parsed) < MaxParseCalls
    /\ input_content' \in CorpusInputs
    /\ output_content' \in CorpusOutputs
    /\ pstep' = "begin"
    /\ UNCHANGED parsed
    /\ UNCHANGED <<judgeVars, comparison, serviceVars>>

NextReparse ==
    \/ ParseBegin
    \/ TrySections
    \/ TryLines
    \/ TryThird
    \/ ParseFallback
    \/ ParseOther

\* the calls of one app's parser by passes over several problems
SpecReparse == InitReparse /\ [][NextReparse]_vars

(***************************************************************************)
(* The output comparison as the judge makes it: first the comparison of    *)
(* the stored-case pass, then that of the file pass, on one pair of texts. *)
(***************************************************************************)
\* the characters of the enumerated texts
TextAlphabet == {"5", " ", "\n", "\r"}

\* texts of several lines
ExampleTexts ==
    { <<"5", "\n", "6">>,
      <<"5", "\r", "\n", "6">>,
      <<"5", "\n", "\n", "6">>,
      <<"5", " ", "\n", "6">> }

ExpectedOutputs == SeqsUpTo(TextAlphabet, MaxText) \cup ExampleTexts
ActualOutputs == SeqsUpTo(TextAlphabet, MaxText - 1) \cup ExampleTexts

\* run_code has returned a text and the judge is about to compare it
InitCompare ==
    /\ app \in Apps
    /\ language = "py"
    /\ dbCases = <<>>
    /\ files = [input |-> FALSE, output |-> FALSE]
    /\ fileCases = <<>>
    /\ pc = "compare"
    /\ phase = "db"
    /\ idx = 0
    /\ calls = <<>>
    /\ returned = None
    /\ disk = {}
    /\ verdict = "none"
    /\ input_content = <<>>
    /\ output_content = <<>>
    /\ pstep = "idle"
    /\ parsed = <<>>
    /\ \E e \in ExpectedOutputs, a \in ActualOutputs :
           comparison = [expected |-> e, actual |-> a, db |-> "none", file |-> "none",
                         norm |-> <<>>]
    /\ IdleService

MatchText(matches) == IF matches THEN "match" ELSE "mismatch"

\* the comparison in the loop over the stored cases
CompareStored ==
    /\ comparison.db = "none"
    /\ comparison' = [comparison EXCEPT !.db =
           MatchText(OutputsMatch(app, "db", comparison.expected, comparison.actual))]
    /\ UNCHANGED <<judgeVars, parserVars, serviceVars>>

\* the comparison in the loop over the file cases; submit has no such loop
CompareFile ==
    /\ app # "submit"
    /\ comparison.db # "none"
    /\ comparison.file = "none"
    /\ comparison' = [comparison EXCEPT !.file =
           MatchText(OutputsMatch(app, "file", comparison.expected, comparison.actual))]
    /\ UNCHANGED <<judgeVars, parserVars, serviceVars>>

\* normalize_output with its first branch: None gives the empty text
NormalizeValue(v) == IF v = None THEN <<>> ELSE normalize_output(v.text)

\* what normalize_output can be handed: None or one of the two texts
NormalizeArgs == {None, Text(comparison.expected), Text(comparison.actual)}

\* normalize_output is called on a value
NormalizeFirst ==
    /\ comparison.norm = <<>>
    /\ \E v \in NormalizeArgs :
           comparison' = [comparison EXCEPT !.norm =
               <<[arg |-> v, result |-> NormalizeValue(v)]>>]
    /\ UNCHANGED <<judgeVars, parserVars, serviceVars>>

\* normalize_output is called on the text the last call returned
NormalizeAgain ==
    /\ Len(comparison.norm) = 1
    /\ LET v == Text(comparison.norm[1].result)
       IN  comparison' = [comparison EXCEPT !.norm =
               Append(@, [arg |-> v, result |-> NormalizeValue(v)])]
    /\ UNCHANGED <<judgeVars, parserVars, serviceVars>>

NextCompare ==
    \/ CompareStored
    \/ CompareFile
    \/ NormalizeFirst
    \/ NormalizeAgain

SpecCompare == InitCompare /\ [][NextCompare]_vars

(***************************************************************************)
(* The toolchain resolution: the _find_* methods of SecureCodeRunner and   *)
(* the version probes of core's execute_*_improved.  A behaviour of        *)
(* SpecResolve is the resolutions of some run_code calls made one after    *)
(* the other; the environment answers each probe when it is made.          *)
(***************************************************************************)
\* the candidate commands in the order the code lists them
Candidates(a, lang) ==
    IF a = "compiler"
    THEN IF lang = "py"
         THEN <<"/usr/local/bin/python3", "/usr/bin/python3", "/opt/python3/bin/python3",
                "python3", "/usr/bin/python", "python">>
         ELSE <<"/usr/bin/g++", "/usr/local/bin/g++", "/opt/gcc/bin/g++", "g++",
                "/usr/bin/clang++", "clang++">>
    ELSE IF lang = "py" THEN <<"python3", "python">>
         ELSE <<"g++">>

\* how a version probe can end: exit code 0 with or without "3." in its
\* stdout, another exit code, FileNotFoundError, TimeoutExpired, another
\* exception (PermissionError for a file that is not executable)
ProbeOutcomes == {"zero3", "zero", "nonzero", "notfound", "timeout", "oserror"}

\* the probe exited with code 0
ExitZero(o) == o \in {"zero3", "zero"}

\* the probe raised an exception
ProbeRaised(o) == o \in {"notfound", "timeout", "oserror"}

\* the condition under which the loop returns the candidate just probed:
\* _find_python wants `returncode == 0 and '3.' in result.stdout`, the other
\* finders and core's python loop `returncode == 0`; core's g++ probe only
\* has to return
ProbeAccepted(a, lang, o) ==
    IF a = "compiler" THEN (IF lang = "py" THEN o = "zero3" ELSE ExitZero(o))
    ELSE IF lang = "py" THEN ExitZero(o)
    ELSE ~ProbeRaised(o)

\* the exceptions of a probe the resolver does not catch: the finders catch
\* (FileNotFoundError, subprocess.TimeoutExpired), core's python loop has a
\* bare except, core's g++ probe catches FileNotFoundError
ProbeEscapes(a, lang, o) ==
    IF a = "compiler" THEN o = "oserror"
    ELSE IF lang = "py" THEN FALSE
    ELSE o \in {"timeout", "oserror"}

\* the languages whose resolution is modelled
ResolvedLanguages == {"py", "cpp"}

\* no candidate has been returned yet
Unresolved == [tag |-> "none", index |-> 0]

\* a resolver that returns at once the candidate it found in the run before
CarriedOverMemo(previous) ==
    IF previous.tag = "found" THEN previous ELSE Unresolved

\* what a resolution starts from, given what the one before returned: the
\* _find_* methods keep nothing on the runner and begin their loop anew
CarriedOver(previous) == Unresolved

\* run_code is about to resolve the toolchain of the language
InitResolve ==
    /\ app \in ParsingApps
    /\ language \in ResolvedLanguages
    /\ dbCases = <<>>
    /\ files = [input |-> FALSE, output |-> FALSE]
    /\ fileCases = <<>>
    /\ pc = "resolve"
    /\ phase = "db"
    /\ idx = 0
    /\ calls = <<>>
    /\ returned = None
    /\ disk = {}
    /\ verdict = "none"
    /\ input_content = <<>>
    /\ output_content = <<>>
    /\ pstep = "idle"
    /\ parsed = <<>>
    /\ comparison = NoComparison
    /\ resolving = [probed |-> <<>>, result |-> Unresolved,
                    run |-> 1, previous |-> [tag |-> "idle", index |-> 0]]
    /\ store = <<>>
    /\ web = <<>>
    /\ seen = <<>>
    /\ runs = <<>>
    /\ fsys = {}
    /\ issued = 0
    /\ review = NoReview

\* one pass of `for cmd in candidates`: probe the next candidate, return it
\* if its probe is accepted, leave by the exception if it is not caught
Probe ==
    /\ resolving.result.tag = "none"
    /\ Len(resolving.probed) < Len(Candidates(app, language))
    /\ \E o \in ProbeOutcomes :
         LET i == Len(resolving.probed) + 1
         IN  resolving' =
               [resolving EXCEPT
                   !.probed = Append(resolving.probed, o),
                   !.result = IF ProbeAccepted(app, language, o)
                              THEN [tag |-> "found", index |-> i]
                              ELSE IF ProbeEscapes(app, language, o)
                              THEN [tag |-> "raised", index |-> i]
                              ELSE Unresolved]
    /\ UNCHANGED <<judgeVars, parserVars, comparison>>
    /\ UNCHANGED <<store, web, seen, runs, fsys, issued, review>>

\* the `return None` after the loop: no candidate was accepted
ResolveNone ==
    /\ resolving.result.tag = "none"
    /\ Len(resolving.probed) = Len(Candidates(app, language))
    /\ resolving' = [resolving EXCEPT !.result = [tag |-> "unavailable", index |-> 0]]
    /\ UNCHANGED <<judgeVars, parserVars, comparison>>
    /\ UNCHANGED <<store, web, seen, runs, fsys, issued, review>>

\* the next run_code call reaches its resolution
ResolveAgain ==
    /\ resolving.result.tag \in {"found", "raised", "unavailable"}
    /\ resolving.run < MaxResolutions
    /\ resolving' = [probed |-> <<>>,
                     result |-> CarriedOver(resolving.result),
                     run |-> resolving.run + 1,
                     previous |-> resolving.result]
    /\ UNCHANGED <<judgeVars, parserVars, comparison>>
    /\ UNCHANGED <<store, web, seen, runs, fsys, issued, review>>

NextResolve ==
    \/ Probe
    \/ ResolveNone
    \/ ResolveAgain

SpecResolve == InitResolve /\ [][NextResolve]_vars

(***************************************************************************)
(* The web layer: handle_submission of the core app and submit_code of the *)
(* submit app.  The server runs each request in a thread of its own; a     *)
(* behaviour of SpecServe is the handling of some posted submissions and   *)
(* the reads of their records by the listing views.                        *)
(***************************************************************************)
Submissions == 1..MaxSubmissions

\* the apps with a view that judges a posted submission
ServingApps == {"core", "submit"}

\* the verdicts the judge of an app returns
JudgeVerdicts(a) == {"AC", "WA", "RE"}

\* what the creation of the Submission record stores: handle_submission
\* creates it before judging with verdict='CE'; submit_code creates it after
\* judging, with the verdict
InitialVerdict(a) == IF a = "core" THEN <<"CE">> ELSE <<>>

\* the mark a deletion leaves in the history of a record
Deleted == "deleted"

\* the row of the submission is in the table: it was created and not deleted
RecordExists(st, s) == st[s] # <<>> /\ st[s][Len(st[s])] # Deleted

\* the row of the submission was created and has been deleted since
RecordDeleted(st, s) == st[s] # <<>> /\ st[s][Len(st[s])] = Deleted

\* the request thread of a submission that has not been posted
NewRequest ==
    [pc |-> "new", verdict |-> "none", code |-> <<>>, language |-> "", invoked |-> FALSE]

\* the code field of a POST: absent or blank, or a program
PostedCodes == {<<>>, <<" ">>, <<"x">>}

\* the language field of a POST; "java" is a choice of the Submission model
PostedLanguages == {"py", "cpp", "java"}

\* a validation that tests the code field as it was posted
AcceptsUntrimmed(a, code, lang) == code # <<>> /\ lang \in {"py", "cpp", "c"}

\* the validation of the request: handle_submission wants a code that is not
\* empty after strip() and a language of valid_languages; the form of the
\* submit app has a required, stripped code field and the same choices
Accepts(a, code, lang) == strip(code) # <<>> /\ lang \in {"py", "cpp", "c"}

InitServe ==
    /\ app \in ServingApps
    /\ language = "py"
    /\ dbCases = <<>>
    /\ files = [input |-> FALSE, output |-> FALSE]
    /\ fileCases = <<>>
    /\ pc = "serve"
    /\ phase = "db"
    /\ idx = 0
    /\ calls = <<>>
    /\ returned = None
    /\ disk = {}
    /\ verdict = "none"
    /\ input_content = <<>>
    /\ output_content = <<>>
    /\ pstep = "idle"
    /\ parsed = <<>>
    /\ comparison = NoComparison
    /\ resolving = NoResolving
    /\ store = [s \in Submissions |-> <<>>]
    /\ web = [s \in Submissions |-> NewRequest]
    /\ seen = [s \in Submissions |-> {}]
    /\ runs = <<>>
    /\ fsys = {}
    /\ issued = 0
    /\ review = NoReview

\* the POST arrives: the view validates it and, in core, creates the record;
\* a request that is not valid, or whose record cannot be created, is
\* answered at once
Post(s) ==
    /\ web[s].pc = "new"
    /\ \E code \in PostedCodes, lang \in PostedLanguages, created \in BOOLEAN :
         IF Accepts(app, code, lang) /\ created
         THEN /\ web' = [web EXCEPT ![s].pc = "judging", ![s].code = code,
                                    ![s].language = lang]
              /\ store' = [store EXCEPT ![s] = InitialVerdict(app)]
         ELSE /\ web' = [web EXCEPT ![s].pc = "responded", ![s].code = code,
                                    ![s].language = lang]
              /\ UNCHANGED store
    /\ UNCHANGED <<judgeVars, parserVars, comparison>>
    /\ UNCHANGED <<resolving, seen, runs, fsys, issued, review>>

\* evaluate_submission runs in the request thread and returns its verdict
Evaluate(s) ==
    /\ web[s].pc = "judging"
    /\ \E v \in JudgeVerdicts(app) :
         web' = [web EXCEPT ![s].pc = "judged", ![s].verdict = v,
                            ![s].invoked = TRUE]
    /\ UNCHANGED <<judgeVars, parserVars, comparison>>
    /\ UNCHANGED <<resolving, store, seen, runs, fsys, issued, review>>

\* how the write of the verdict can end: it succeeds or the database raises;
\* save() of a row that was deleted meanwhile falls back to an INSERT, which
\* the foreign key to the deleted user makes fail
SaveOutcomes(st, s) == IF RecordDeleted(st, s) THEN {FALSE} ELSE BOOLEAN

\* core: submission.verdict = verdict; submission.save()
\* submit: Submission.objects.create(..., verdict=verdict)
\* a database error is caught by the view (core) or fails the request (submit)
SaveVerdict(s) ==
    /\ web[s].pc = "judged"
    /\ \E ok \in SaveOutcomes(store, s) :
         store' = IF ok THEN [store EXCEPT ![s] = Append(@, web[s].verdict)]
                  ELSE store
    /\ web' = [web EXCEPT ![s].pc = "saved"]
    /\ UNCHANGED <<judgeVars, parserVars, comparison>>
    /\ UNCHANGED <<resolving, seen, runs, fsys, issued, review>>

\* the view returns its response
Respond(s) ==
    /\ web[s].pc = "saved"
    /\ web' = [web EXCEPT ![s].pc = "responded"]
    /\ UNCHANGED <<judgeVars, parserVars, comparison>>
    /\ UNCHANGED <<resolving, store, seen, runs, fsys, issued, review>>

\* submissions_list or problem_detail shows the stored verdict of a record
\* that is in the table
ReadRecord(s) ==
    /\ RecordExists(store, s)
    /\ seen' = [seen EXCEPT ![s] = @ \cup {store[s][Len(store[s])]}]
    /\ UNCHANGED <<judgeVars, parserVars, comparison>>
    /\ UNCHANGED <<resolving, store, web, runs, fsys, issued, review>>

\* the submissions posted by the user of the name test_registration uses
TestUserSubmissions == {1, 2}

\* test_registration deletes the user it finds under its test name and the
\* one it made: on_delete=CASCADE removes every Submission row of that
\* user, whatever its request thread is doing
DeleteUser ==
    /\ \E s \in Submissions \cap TestUserSubmissions : RecordExists(store, s)
    /\ store' = [s \in Submissions |->
                    IF s \in TestUserSubmissions /\ RecordExists(store, s)
                    THEN Append(store[s], Deleted) ELSE store[s]]
    /\ UNCHANGED <<judgeVars, parserVars, comparison>>
    /\ UNCHANGED <<resolving, web, seen, runs, fsys, issued, review>>

NextServe ==
    \/ \E s \in Submissions : Post(s)
    \/ \E s \in Submissions : Evaluate(s)
    \/ \E s \in Submissions : SaveVerdict(s)
    \/ \E s \in Submissions : Respond(s)
    \/ \E s \in Submissions : ReadRecord(s)
    \/ DeleteUser

SpecServe == InitServe /\ [][NextServe]_vars

(***************************************************************************)
(* The AI review: ai_review_submission and try_ai_review_with_model, the   *)
(* same in the compiler app and in core.  A behaviour of SpecReview is one *)
(* review request; the service answers each HTTP request when it is sent.  *)
(***************************************************************************)
\* max_retries=3 of try_ai_review_with_model
max_retries == 3

\* models_to_try, in the order of the list
models_to_try == <<"gemini-1.5-flash-latest", "gemini-1.5-flash", "gemini-pro">>

\* how requests.post can end: 200 with a review; 200 with a candidate that
\* was blocked (finishReason SAFETY or MAX_TOKENS); 200 without a usable
\* candidate; 200 with a body that is not JSON; 200 with a candidate whose
\* content has no text (KeyError); the statuses 503, 429, 400, 403, 404 and
\* another one; requests.exceptions.Timeout and ConnectionError; another
\* exception
Responses ==
    {"200", "200blocked", "200empty", "200badjson", "200malformed",
     "503", "429", "400", "403", "404", "500",
     "timeout", "connection", "exception"}

\* a retry rule that also tries the same model again after a 404
ContinuesAlso404(r, attempt) ==
    r \in {"503", "429", "timeout", "connection", "404"} /\ attempt < max_retries - 1

\* the branches that `continue` the attempt loop: 503, 429, Timeout and
\* ConnectionError on an attempt that is not the last
Continues(r, attempt) ==
    r \in {"503", "429", "timeout", "connection"} /\ attempt < max_retries - 1

\* the dict the attempt returns when it does not continue
AttemptResult(r, attempt) ==
    IF r = "200" THEN [success |-> TRUE, should_retry |-> FALSE, cause |-> r]
    ELSE IF r \in {"200empty", "200badjson", "404", "503", "429", "timeout", "connection"}
    THEN [success |-> FALSE, should_retry |-> TRUE, cause |-> r]
    ELSE IF r = "500"
    THEN [success |-> FALSE, should_retry |-> attempt < max_retries - 1, cause |-> r]
    ELSE [success |-> FALSE, should_retry |-> FALSE, cause |-> r]

\* a fallback loop that goes on to the next model after every failure
TriesNextModelAlways(result) == ~result.success

\* ai_review_submission: `elif result.get('should_retry', False): continue`
TriesNextModel(result) == ~result.success /\ result.should_retry

\* try_ai_review_with_model is called for the m-th model of the list
ModelCall(m) == [name |-> models_to_try[m], requests |-> 0]

\* the JsonResponse of the view when the fallback loop ends with a result
ResponseOf(result) == IF result.success THEN "review" ELSE result.cause

InitReview ==
    /\ app \in ParsingApps
    /\ language = "py"
    /\ dbCases = <<>>
    /\ files = [input |-> FALSE, output |-> FALSE]
    /\ fileCases = <<>>
    /\ pc = "review"
    /\ phase = "db"
    /\ idx = 0
    /\ calls = <<>>
    /\ returned = None
    /\ disk = {}
    /\ verdict = "none"
    /\ input_content = <<>>
    /\ output_content = <<>>
    /\ pstep = "idle"
    /\ parsed = <<>>
    /\ comparison = NoComparison
    /\ resolving = NoResolving
    /\ store = <<>>
    /\ web = <<>>
    /\ seen = <<>>
    /\ runs = <<>>
    /\ fsys = {}
    /\ issued = 0
    /\ review = [NoReview EXCEPT !.state = "new"]

\* the view reads GEMINI_API_KEY: without a key it answers at once, with one
\* it enters the loop over the models
ReviewStart ==
    /\ review.state = "new"
    /\ \E configured \in BOOLEAN :
         review' = IF configured
                   THEN [review EXCEPT !.state = "trying", !.model = 1,
                                       !.sent = <<ModelCall(1)>>]
                   ELSE [review EXCEPT !.state = "responded",
                                       !.response = "not configured"]
    /\ UNCHANGED <<judgeVars, parserVars, comparison>>
    /\ UNCHANGED <<resolving, store, web, seen, runs, fsys, issued>>

\* one pass of `for attempt in range(max_retries)`: the request is sent and
\* answered; the loop continues, or try_ai_review_with_model returns and the
\* loop over the models goes on to the next model or ends the review
SendRequest ==
    /\ review.state = "trying"
    /\ \E r \in Responses :
         LET sent == [review EXCEPT !.sent[review.model].requests = @ + 1, !.last = r]
             result == AttemptResult(r, review.attempt)
             returned_ == [sent EXCEPT !.results = Append(@, result)]
         IN  review' =
               IF Continues(r, review.attempt)
               THEN [sent EXCEPT !.attempt = @ + 1]
               ELSE IF ~TriesNextModel(result)
               THEN [returned_ EXCEPT !.state = "responded",
                                      !.response = ResponseOf(result)]
               ELSE IF review.model < Len(models_to_try)
               THEN [returned_ EXCEPT !.model = @ + 1, !.attempt = 0,
                                      !.sent = Append(@, ModelCall(review.model + 1))]
               ELSE [returned_ EXCEPT !.state = "responded",
                                      !.response = "all models unavailable"]
    /\ UNCHANGED <<judgeVars, parserVars, comparison>>
    /\ UNCHANGED <<resolving, store, web, seen, runs, fsys, issued>>

NextReview ==
    \/ ReviewStart
    \/ SendRequest

SpecReview == InitReview /\ [][NextReview]_vars

(***************************************************************************)
(* Concurrent runs: the request threads judge at the same time and each    *)
(* makes its run_code calls one after the other.  The files of the runs    *)
(* are explicit; the environment is held fixed (interpreter present, no    *)
(* file system fault), and a program is a function of its source and its   *)
(* stdin.  A behaviour of SpecPool is an interleaving of the steps of the  *)
(* runs of all threads.                                                    *)
(***************************************************************************)
Threads == 1..MaxThreads

\* sources of submissions: one that echoes its stdin, one that exits with a
\* non-zero code
Sources == {<<"e">>, <<"x">>}

\* the stdin payloads of the test cases
Stdins == {<<"a">>, <<"b">>}

\* what the interpreter does with a source file and a stdin file
Program(source, stdin) ==
    IF source = <<"e">> THEN [exit |-> "zero", out |-> stdin]
    ELSE [exit |-> "nonzero", out |-> <<>>]

\* an identifier generator that hands out the same value every time
UuidConstant(n) == 1

\* uuid.uuid4(): a value that has not been drawn before
Uuid(n) == n + 1

\* the files of a run; only the compiler app sends stderr to a file
FileKinds == {"code", "input", "output", "error"}

\* the directory a run keeps a file of the given kind in:
\* compiler  temp_base / f"oj_run_{unique_id}"
\* core      tempfile.mkdtemp(prefix=f"oj_exec_{unique}_"), a name not in use
\* submit    the shared directories codes, inputs, outputs
RunDir(a, id, suffix, kind) ==
    IF a = "compiler" THEN [base |-> "oj_run", id |-> id, suffix |-> 0]
    ELSE IF a = "core" THEN [base |-> "oj_exec", id |-> id, suffix |-> suffix]
    ELSE [base |-> (IF kind = "code" THEN "codes"
                    ELSE IF kind = "input" THEN "inputs" ELSE "outputs"),
          id |-> 0, suffix |-> 0]

\* the path of a file of a run; every file name carries the identifier
FilePath(a, id, suffix, kind) ==
    [dir |-> RunDir(a, id, suffix, kind), name |-> [id |-> id, kind |-> kind]]

\* the entry of a directory itself
DirPath(d) == [dir |-> d, name |-> [id |-> 0, kind |-> "dir"]]

\* the apps whose run makes a directory of its own
OwnDirectory(a) == a # "submit"

FilesAt(fs, path) == {f \in fs : f.path = path}
Exists(fs, path) == FilesAt(fs, path) # {}
DataAt(fs, path) == (CHOOSE f \in FilesAt(fs, path) : TRUE).data

\* open(path, 'w').write(data)
WriteFile(fs, path, data, owner) ==
    (fs \ FilesAt(fs, path)) \cup {[path |-> path, data |-> data, owner |-> owner]}

\* shutil.rmtree(dir)
RemoveTree(fs, d) == {f \in fs : f.path.dir # d}

\* path.unlink() for each of the paths that exist
Unlink(fs, paths) == {f \in fs : f.path \notin paths}

\* a thread between two runs
IdleRun(source) ==
    [pc |-> "idle", run |-> 0, id |-> 0, suffix |-> 0, stdin |-> <<>>,
     child |-> "none", exit |-> "none", result |-> None, source |-> source,
     outcomes |-> {}]

PathOf(r, kind) == FilePath(app, r.id, r.suffix, kind)

InitPool ==
    /\ app \in Apps
    /\ language = "py"
    /\ dbCases = <<>>
    /\ files = [input |-> FALSE, output |-> FALSE]
    /\ fileCases = <<>>
    /\ pc = "pool"
    /\ phase = "db"
    /\ idx = 0
    /\ calls = <<>>
    /\ returned = None
    /\ disk = {}
    /\ verdict = "none"
    /\ input_content = <<>>
    /\ output_content = <<>>
    /\ pstep = "idle"
    /\ parsed = <<>>
    /\ comparison = NoComparison
    /\ resolving = NoResolving
    /\ store = <<>>
    /\ web = <<>>
    /\ seen = <<>>
    /\ \E sources \in [Threads -> Sources] :
           runs = [t \in Threads |-> IdleRun(sources[t])]
    /\ fsys = {}
    /\ issued = 0
    /\ review = NoReview

\* run_code is entered: it draws its identifier and makes its directory
StartRun(t) ==
    /\ runs[t].pc = "idle"
    /\ issued < MaxRuns
    /\ \E stdin \in Stdins :
         LET r == [runs[t] EXCEPT !.pc = "write", !.run = @ + 1,
                                  !.id = Uuid(issued), !.suffix = issued + 1,
                                  !.stdin = stdin, !.exit = "none", !.result = None]
             d == RunDir(app, r.id, r.suffix, "code")
         IN  /\ runs' = [runs EXCEPT ![t] = r]
             /\ fsys' = IF OwnDirectory(app) /\ ~Exists(fsys, DirPath(d))
                        THEN WriteFile(fsys, DirPath(d), <<>>, <<t, r.run>>)
                        ELSE fsys
    /\ issued' = issued + 1
    /\ UNCHANGED <<judgeVars, parserVars, comparison>>
    /\ UNCHANGED <<resolving, store, web, seen, review>>

\* the source and the stdin payload are written; submit also creates the
\* output file.  Writing into a directory that is gone raises.
WriteRun(t) ==
    /\ runs[t].pc = "write"
    /\ LET r == runs[t]
           owner == <<t, r.run>>
           withCode == WriteFile(fsys, PathOf(r, "code"), r.source, owner)
           withInput == WriteFile(withCode, PathOf(r, "input"), r.stdin, owner)
       IN  IF OwnDirectory(app) /\ ~Exists(fsys, DirPath(RunDir(app, r.id, r.suffix, "code")))
           THEN /\ runs' = [runs EXCEPT ![t].pc = "cleanup", ![t].exit = "fault"]
                /\ UNCHANGED fsys
           ELSE /\ runs' = [runs EXCEPT ![t].pc = "exec"]
                /\ fsys' = IF app = "submit"
                           THEN WriteFile(withInput, PathOf(r, "output"), <<>>, owner)
                           ELSE withInput
    /\ UNCHANGED <<judgeVars, parserVars, comparison>>
    /\ UNCHANGED <<resolving, store, web, seen, issued, review>>

\* what run_code makes of the exit code and the output file it reads back
ReadBack(a, fs, path, exit) ==
    LET out == IF Exists(fs, path) THEN Text(DataAt(fs, path))
               ELSE IF a = "compiler" THEN Text(<<>>)
               ELSE FailureResult(a, "fault")
    IN  IF a = "submit" \/ exit = "zero" THEN out ELSE None

\* the files run_code opens with mode 'w' before it starts the interpreter
OpenedKinds(a) == IF a = "compiler" THEN {"output", "error"} ELSE {"output"}

\* open(path, 'w') on each of the paths: the file is created, or emptied
RECURSIVE Truncate(_, _, _)
Truncate(fs, paths, owner) ==
    IF paths = {} THEN fs
    ELSE LET q == CHOOSE x \in paths : TRUE
         IN  Truncate(WriteFile(fs, q, <<>>, owner), paths \ {q}, owner)

\* the stdin file is opened for reading, the output file (in the compiler
\* app the error file too) is created or emptied, and the interpreter is
\* started as a child process; a file that cannot be opened raises
SpawnRun(t) ==
    /\ runs[t].pc = "exec"
    /\ LET r == runs[t]
           hasDir == \/ ~OwnDirectory(app)
                     \/ Exists(fsys, DirPath(RunDir(app, r.id, r.suffix, "code")))
       IN  IF hasDir /\ Exists(fsys, PathOf(r, "input"))
           THEN /\ fsys' = Truncate(fsys, {PathOf(r, k) : k \in OpenedKinds(app)},
                                    <<t, r.run>>)
                /\ runs' = [runs EXCEPT ![t].pc = "wait", ![t].child = "running"]
           ELSE /\ runs' = [runs EXCEPT ![t].pc = "cleanup", ![t].exit = "fault",
                                         ![t].result = FailureResult(app, "fault")]
                /\ UNCHANGED fsys
    /\ UNCHANGED <<judgeVars, parserVars, comparison>>
    /\ UNCHANGED <<resolving, store, web, seen, issued, review>>

\* the child process: the interpreter opens the source file (it exits
\* non-zero when it cannot), reads its stdin, writes its stdout into the
\* output file and exits, while the thread that started it is blocked in
\* process.wait / subprocess.run and the other threads go on
ProgramRun(t) ==
    /\ runs[t].child = "running"
    /\ LET r == runs[t]
           stdin == IF Exists(fsys, PathOf(r, "input"))
                    THEN DataAt(fsys, PathOf(r, "input")) ELSE r.stdin
           b == IF Exists(fsys, PathOf(r, "code"))
                THEN Program(DataAt(fsys, PathOf(r, "code")), stdin)
                ELSE [exit |-> "nonzero", out |-> <<>>]
       IN  /\ fsys' = IF b.out # <<>> /\ Exists(fsys, PathOf(r, "output"))
                      THEN WriteFile(fsys, PathOf(r, "output"), b.out, <<t, r.run>>)
                      ELSE fsys
           /\ runs' = [runs EXCEPT ![t].child = b.exit]
    /\ UNCHANGED <<judgeVars, parserVars, comparison>>
    /\ UNCHANGED <<resolving, store, web, seen, issued, review>>

\* process.wait / subprocess.run returns once the child has exited: the
\* thread has the return code
WaitRun(t) ==
    /\ runs[t].pc = "wait"
    /\ runs[t].child \in {"zero", "nonzero"}
    /\ runs' = [runs EXCEPT ![t].pc = "read", ![t].exit = runs[t].child,
                            ![t].child = "none"]
    /\ UNCHANGED <<judgeVars, parserVars, comparison>>
    /\ UNCHANGED <<resolving, store, web, seen, issued, fsys, review>>

\* the return code is checked and the output file is read back
ReadRun(t) ==
    /\ runs[t].pc = "read"
    /\ runs' = [runs EXCEPT ![t].pc = "cleanup",
                            ![t].result = ReadBack(app, fsys, PathOf(runs[t], "output"),
                                                   runs[t].exit)]
    /\ UNCHANGED <<judgeVars, parserVars, comparison>>
    /\ UNCHANGED <<resolving, store, web, seen, issued, fsys, review>>

\* finally: the compiler app and core remove their directory, submit
\* unlinks the files it made; then run_code returns and its locals are gone
CleanupRun(t) ==
    /\ runs[t].pc = "cleanup"
    /\ LET r == runs[t]
       IN  /\ fsys' = IF OwnDirectory(app)
                      THEN RemoveTree(fsys, RunDir(app, r.id, r.suffix, "code"))
                      ELSE Unlink(fsys, {PathOf(r, k) : k \in {"code", "input", "output"}})
           /\ runs' = [runs EXCEPT ![t] =
                          [IdleRun(r.source) EXCEPT
                               !.run = r.run,
                               !.outcomes = r.outcomes \cup
                                   {[stdin |-> r.stdin, exit |-> r.exit,
                                     result |-> r.result]}]]
    /\ UNCHANGED <<judgeVars, parserVars, comparison>>
    /\ UNCHANGED <<resolving, store, web, seen, issued, review>>

NextPool ==
    \/ \E t \in Threads : StartRun(t)
    \/ \E t \in Threads : WriteRun(t)
    \/ \E t \in Threads : SpawnRun(t)
    \/ \E t \in Threads : ProgramRun(t)
    \/ \E t \in Threads : WaitRun(t)
    \/ \E t \in Threads : ReadRun(t)
    \/ \E t \in Threads : CleanupRun(t)

SpecPool == InitPool /\ [][NextPool]_vars

(***************************************************************************)
(* Vocabulary of the claims.                                               *)
(***************************************************************************)
\* run_code call number i has returned to the judge
RunHasReturned(i) ==
    i < Len(calls) \/ pc \in {"compare", "next", "files", "read", "done"}

\* what the call handed to the judge: the result of its body, or the
\* exception of its finally block
HandedBack(c) == IF c.existsRaised THEN Raised ELSE c.result

\* the judge's own comparison accepts what the call handed back
CaseMatched(c) ==
    /\ HandedBack(c).tag = "text"
    /\ OutputsMatch(app, c.phase, ExpectedOf(c.phase, c.n), c.result.text)

\* the program ran cleanly and its normalized output equals the normalized
\* expected output
CleanMatch(c) ==
    /\ c.kind = "success"
    /\ normalize_output(c.result.text) = normalize_output(ExpectedOf(c.phase, c.n))

\* the position of a call's case in the order the judge takes the cases
CasePos(c) ==
    IF c.phase = "db"
    THEN CHOOSE k \in 1..Len(JudgedDbIndexes(app, dbCases)) :
             JudgedDbIndexes(app, dbCases)[k] = c.n
    ELSE Len(JudgedDbIndexes(app, dbCases)) + c.n

NumJudgedCases == Len(JudgedDbIndexes(app, dbCases)) + Len(fileCases)

(***************************************************************************)
(* C1: in one judging pass the Runner is invoked at most once per case, in *)
(* the judge's case order, and never for a case after the first case whose *)
(* outcome is not a match: when case k is the first failing case the       *)
(* Runner has been invoked exactly k times when the verdict is produced.   *)
(***************************************************************************)
C1_ShortCircuit ==
    /\ \A i \in DOMAIN calls : CasePos(calls[i]) = i
    /\ \A i \in 1..(Len(calls) - 1) : CaseMatched(calls[i])
    /\ (pc = "done" /\ calls # <<>> /\ ~CaseMatched(Cur)) =>
           /\ Len(calls) = CasePos(Cur)
           /\ verdict # "AC"

\* case 2 of 3 is the first failing case and the verdict is out
C1_Witness ==
    /\ pc = "done"
    /\ NumJudgedCases = 3
    /\ Len(calls) = 2
    /\ CaseMatched(calls[1])
    /\ ~CaseMatched(calls[2])
    /\ verdict = "WA"

(***************************************************************************)
(* C2: the judge returns Accepted if and only if every test case of the    *)
(* problem - every stored case, visible or hidden, and every case parsed   *)
(* from the file corpus - was run and its normalized output equalled the   *)
(* normalized expected output.                                             *)
(***************************************************************************)
C2_AcceptedIffAllCasesMatched ==
    pc = "done" =>
        (verdict = "AC" <=>
            /\ \A n \in 1..Len(dbCases) : \E i \in DOMAIN calls :
                   calls[i].phase = "db" /\ calls[i].n = n /\ CleanMatch(calls[i])
            /\ \A n \in 1..Len(fileCases) : \E i \in DOMAIN calls :
                   calls[i].phase = "file" /\ calls[i].n = n /\ CleanMatch(calls[i]))

(***************************************************************************)
(* C3: when the execution of a case exceeds its time limit the judge stops *)
(* at once and its verdict is TLE.                                         *)
(***************************************************************************)
C3_TimeoutGivesTLE ==
    /\ \A i \in 1..(Len(calls) - 1) : calls[i].kind # "timeout"
    /\ (pc = "done" /\ calls # <<>> /\ Cur.kind = "timeout") => verdict = "TLE"

(***************************************************************************)
(* C4: for a compiled language, when the compiler exits non-zero the       *)
(* verdict is CE and the compiled program is never started.                *)
(***************************************************************************)
C4_CompileErrorGivesCE ==
    /\ \A i \in DOMAIN calls : calls[i].kind = "compile_error" => ~calls[i].started
    /\ (pc = "done" /\ calls # <<>> /\ Cur.kind = "compile_error") => verdict = "CE"

(***************************************************************************)
(* C5: when no toolchain for the language is found the verdict is IE and   *)
(* no further case is run.                                                 *)
(***************************************************************************)
C5_UnavailableGivesIE ==
    /\ \A i \in 1..(Len(calls) - 1) : calls[i].kind # "unavailable"
    /\ (pc = "done" /\ calls # <<>> /\ Cur.kind = "unavailable") => verdict = "IE"

(***************************************************************************)
(* C6: an unexpected fault inside the Runner (workspace creation, file     *)
(* I/O, process spawn) or inside the evaluator (the corpus files exist but *)
(* cannot be read) results in the verdict IE.                              *)
(***************************************************************************)
C6_FaultGivesIE ==
    /\ (pc = "done" /\ calls # <<>> /\ Cur.kind = "fault") => verdict = "IE"
    /\ (/\ pc = "done" /\ phase = "db"
        /\ files.input /\ files.output /\ fileCases # <<>>
        /\ (calls # <<>> => CaseMatched(Cur))) => verdict = "IE"

(***************************************************************************)
(* C7: the verdict WA is produced only for a case whose program ran        *)
(* cleanly (compiled, no timeout, exit code 0) and whose normalized output *)
(* differs from the normalized expected output.                            *)
(***************************************************************************)
C7_WrongAnswerOnlyAfterCleanRun ==
    verdict = "WA" =>
        /\ Cur.kind = "success"
        /\ normalize_output(Cur.result.text)
               # normalize_output(ExpectedOf(Cur.phase, Cur.n))

(***************************************************************************)
(* C8: a run counts as success only if the exit code is 0; a program that  *)
(* exits non-zero without timing out is a runtime error whatever it wrote, *)
(* so a non-zero exit never contributes to Accepted.                       *)
(***************************************************************************)
C8_NonZeroExitNeverSuccess ==
    /\ (pc = "done" /\ calls # <<>> /\ Cur.kind = "nonzero") => verdict = "RE"
    /\ verdict = "AC" => \A i \in DOMAIN calls : calls[i].kind # "nonzero"

(***************************************************************************)
(* C9: after any run call has returned, whatever its outcome, the          *)
(* workspace it created no longer exists.                                  *)
(***************************************************************************)
C9_NoWorkspaceAfterRun ==
    \A i \in DOMAIN calls : RunHasReturned(i) => calls[i].ws \notin disk

(***************************************************************************)
(* C10: a failure of the cleanup step never changes the result of the run: *)
(* whether the finally block of run_code fails in its existence test or in *)
(* the removal itself, run_code returns what its body returned, the        *)
(* failure does not surface as an exception, and the verdict is the one    *)
(* that result gives.                                                      *)
(***************************************************************************)
CleanupStepFailed(c) == c.cleanupFailed \/ c.existsRaised

C10_CleanupFailureKeepsResult ==
    /\ (pc = "compare" /\ CleanupStepFailed(Cur)) =>
           /\ returned = Cur.result
           /\ returned.tag # "raise"
    /\ (pc = "done" /\ calls # <<>> /\ CleanupStepFailed(Cur)) =>
           \/ verdict = CaseVerdict(app, Cur.phase, Cur.result,
                                    ExpectedOf(Cur.phase, Cur.n))
           \/ CaseMatched(Cur)

(***************************************************************************)
(* C11: every run call terminates - whatever the user program and the      *)
(* toolchain do (run forever, ignore the termination signal), a run_code   *)
(* call that has been entered returns to the judge, and the judging pass   *)
(* eventually produces a verdict.                                          *)
(***************************************************************************)
C11_EveryRunTerminates ==
    /\ (pc \in {"enter", "resolve", "write", "compile", "exec", "wait", "expired",
                "readback", "grace", "cleanup"})
           ~> (pc = "compare")
    /\ <>(pc = "done" /\ verdict # "none")

(***************************************************************************)
(* C12: no exception propagates out of run_code - for every language tag   *)
(* and every internal fault the call hands a value back to the judge       *)
(* instead of raising.                                                     *)
(***************************************************************************)
C12_RunNeverRaises ==
    /\ returned.tag # "raise"
    /\ \A i \in DOMAIN calls : calls[i].result.tag # "raise"

(***************************************************************************)
(* Vocabulary of the parser claims.                                        *)
(***************************************************************************)
\* the non-empty sections of a blob split on the blank-line separator
ClaimSections(blob) == NonEmptyStripped(SplitSections(strip(blob)))

\* the lines of a blob split on single newlines, empty lines discarded
ClaimLines(blob) == NonEmptyStripped(SplitLines(strip(blob)))

\* both blobs split into the same number, more than one, of sections
SectionSplitApplies ==
    /\ Len(ClaimSections(input_content)) = Len(ClaimSections(output_content))
    /\ Len(ClaimSections(input_content)) > 1

\* both blobs split into the same number, more than one, of lines
LineSplitApplies ==
    /\ Len(ClaimLines(input_content)) = Len(ClaimLines(output_content))
    /\ Len(ClaimLines(input_content)) > 1

\* what strategy k of the running app gives for the blobs of this behaviour
Tried(k) == StrategyCases(app, k, input_content, output_content)

DigitValue(c) ==
    CASE c = "0" -> 0 [] c = "1" -> 1 [] c = "2" -> 2 [] c = "3" -> 3 [] c = "4" -> 4
      [] c = "5" -> 5 [] c = "6" -> 6 [] c = "7" -> 7 [] c = "8" -> 8 [] c = "9" -> 9

\* the value of a line that consists of digits only
RECURSIVE IntOf(_)
IntOf(line) ==
    IF line = <<>> THEN 0
    ELSE 10 * IntOf(SubSeq(line, 1, Len(line) - 1)) + DigitValue(line[Len(line)])

\* the first input line is a bare integer N > 1 and the lines after it
\* divide evenly by N (for N = 1 the N cases are a single case)
CountPrefixed ==
    LET lines == ClaimLines(input_content)
    IN  /\ Len(lines) > 1
        /\ \A i \in DOMAIN lines[1] : lines[1][i] \in Digits
        /\ IntOf(lines[1]) > 1
        /\ (Len(lines) - 1) % IntOf(lines[1]) = 0

(***************************************************************************)
(* C13: the parser tries its strategies in one fixed order - sections,     *)
(* lines, the third strategy, the single case - and returns the result of  *)
(* the first that yields a split; the result of a later strategy is        *)
(* returned only when every earlier one gave none, and a strategy whose    *)
(* counts do not match is passed over without an error.                    *)
(***************************************************************************)
C13_FirstStrategyWins ==
    \A n \in DOMAIN parsed :
        LET r == parsed[n]
        IN  /\ r.strategy \in {"empty", "sections", "lines", "third", "single"}
            /\ r.strategy = "sections" =>
                   /\ Tried("sections") # NoCases
                   /\ r.cases = Tried("sections")
            /\ r.strategy = "lines" =>
                   /\ Tried("sections") = NoCases
                   /\ Tried("lines") # NoCases
                   /\ r.cases = Tried("lines")
            /\ r.strategy = "third" =>
                   /\ Tried("sections") = NoCases
                   /\ Tried("lines") = NoCases
                   /\ Tried("third") # NoCases
                   /\ r.cases = Tried("third")
            /\ r.strategy = "single" =>
                   /\ Tried("sections") = NoCases
                   /\ Tried("lines") = NoCases
                   /\ Tried("third") = NoCases

\* the input splits into sections, the section counts do not match, and the
\* parser has gone on to return the cases of the line strategy
C13_Witness ==
    /\ pstep = "returned"
    /\ Len(SplitSections(strip(input_content))) > 1
    /\ Tried("sections") = NoCases
    /\ parsed[Len(parsed)].strategy = "lines"
    /\ Len(parsed[Len(parsed)].cases) > 1

(***************************************************************************)
(* C14: when both blobs split on the blank-line separator into the same    *)
(* number (more than one) of non-empty sections, the parser returns that   *)
(* many cases, the i-th pairing the i-th input section with the i-th       *)
(* output section.                                                         *)
(***************************************************************************)
C14_SectionsPairedPositionally ==
    \A n \in DOMAIN parsed :
        SectionSplitApplies =>
            parsed[n].cases = PairCases(ClaimSections(input_content),
                                        ClaimSections(output_content))

(***************************************************************************)
(* C15: when no section split applies and both blobs, split on single      *)
(* newlines with empty lines discarded, have the same number (more than    *)
(* one) of lines, the parser returns one case per line, paired by position.*)
(***************************************************************************)
C15_LinesPairedPositionally ==
    \A n \in DOMAIN parsed :
        (~SectionSplitApplies /\ LineSplitApplies) =>
            parsed[n].cases = PairCases(ClaimLines(input_content),
                                        ClaimLines(output_content))

(***************************************************************************)
(* C16: when neither the section nor the line strategy applies to two      *)
(* non-blank blobs, the first input line is a bare integer N > 1 and the   *)
(* remaining lines divide evenly by N, the parser returns N test cases,    *)
(* not a single case.                                                      *)
(***************************************************************************)
C16_CountPrefixGivesNCases ==
    \A n \in DOMAIN parsed :
        (/\ ~EmptyContent(input_content, output_content)
         /\ ~SectionSplitApplies /\ ~LineSplitApplies /\ CountPrefixed) =>
            Len(parsed[n].cases) = IntOf(ClaimLines(input_content)[1])

(***************************************************************************)
(* C17: the parser is total - for every pair of blobs, blank ones          *)
(* included, it returns at least one test case, and when no strategy       *)
(* detects several cases it returns exactly one case holding each whole    *)
(* blob.                                                                   *)
(***************************************************************************)
C17_ParseTotal ==
    \A n \in DOMAIN parsed :
        /\ Len(parsed[n].cases) >= 1
        /\ (Tried("sections") = NoCases /\ Tried("lines") = NoCases
              /\ Tried("third") = NoCases) =>
               parsed[n].cases = single_test_case(input_content, output_content)

(* ordinal order: the stored cases run have pairwise distinct, ascending   *)
(* order values, so that their order is total and no two judgings can take *)
(* them differently, and the parsed cases carry the ordinals 1..n by       *)
(* position and are run in that order.                                     *)
(***************************************************************************)
C19_AscendingDistinctOrder ==
    /\ \A i, j \in DOMAIN calls :
           (i < j /\ calls[i].phase = "db" /\ calls[j].phase = "db") =>
               dbCases[calls[i].n].order < dbCases[calls[j].n].order
    /\ \A i, j \in DOMAIN calls :
           (i < j /\ calls[i].phase = "file" /\ calls[j].phase = "file") =>
               calls[i].n < calls[j].n
    /\ \A n \in DOMAIN parsed : \A i \in DOMAIN parsed[n].cases :
           parsed[n].cases[i].case_number = i

(***************************************************************************)
(* C20: a case matches exactly when the program's stdout and the expected  *)
(* output are equal after both are normalized (line endings unified to     *)
(* \n, trailing whitespace removed from every line, trailing empty lines   *)
(* dropped); any other difference, leading whitespace included, is a       *)
(* mismatch; the stored-case pass and the file pass compare the same way.  *)
(***************************************************************************)
C20_MatchIffNormalizedEqual ==
    LET equal == normalize_output(comparison.expected) = normalize_output(comparison.actual)
    IN  /\ comparison.db # "none" => (comparison.db = MatchText(equal))
        /\ comparison.file # "none" => (comparison.file = MatchText(equal))

(***************************************************************************)
(* C21: judging is two sequential passes, the stored cases first and the   *)
(* file corpus second: no case of the file pass is run unless every case   *)
(* of the stored-case pass has been run and matched, and the first failing *)
(* case of either pass ends the judging and determines the verdict.        *)
(***************************************************************************)
C21_TwoSequentialPasses ==
    /\ \A i, j \in DOMAIN calls :
           (i < j /\ calls[i].phase = "file") => calls[j].phase = "file"
    /\ \A i \in DOMAIN calls :
           calls[i].phase = "file" =>
               \A k \in DOMAIN JudgedDbIndexes(app, dbCases) :
                   \E j \in 1..(i - 1) :
                       /\ calls[j].phase = "db"
                       /\ calls[j].n = JudgedDbIndexes(app, dbCases)[k]
                       /\ CaseMatched(calls[j])
    /\ \A i \in DOMAIN calls :
           (RunHasReturned(i) /\ ~CaseMatched(calls[i])) =>
               /\ i = Len(calls)
               /\ pc \in {"compare", "done"}
               /\ pc = "done" =>
                      verdict = CaseVerdict(app, calls[i].phase, HandedBack(calls[i]),
                                            ExpectedOf(calls[i].phase, calls[i].n))

\* both stored cases matched, the file pass ran and its case failed
C21_Witness ==
    /\ pc = "done"
    /\ Len(calls) = 3
    /\ calls[1].phase = "db" /\ CaseMatched(calls[1])
    /\ calls[2].phase = "db" /\ CaseMatched(calls[2])
    /\ calls[3].phase = "file" /\ ~CaseMatched(calls[3])
    /\ Len(fileCases) = 1
    /\ verdict = "WA"

(***************************************************************************)
(* C29: within one judging pass the compiler is invoked at most once per   *)
(* submission - the artifact built for the first case is reused for the    *)
(* later cases - so a compile error or a compile timeout can arise only on *)
(* the first case of the pass.                                             *)
(***************************************************************************)
C29_CompiledOncePerPass ==
    \A ph \in {"db", "file"} :
        LET passCalls == {i \in DOMAIN calls : calls[i].phase = ph}
        IN  /\ Cardinality({i \in passCalls : calls[i].compiled}) <= 1
            /\ \A i \in passCalls :
                   calls[i].kind \in {"compile_error", "compile_timeout"} =>
                       \A j \in passCalls : i <= j

(***************************************************************************)
(* C27: after the handling of an execution timeout has finished and        *)
(* run_code has returned, no process of the user program's process group   *)
(* is still alive - also not a forked child that ignores the termination   *)
(* signal while the group leader exits on it.                              *)
(***************************************************************************)
C27_NoSurvivorAfterTimeout ==
    \A i \in DOMAIN calls :
        (calls[i].kind = "timeout" /\ RunHasReturned(i)) => calls[i].alive = {}

(***************************************************************************)
(* C28: on an execution timeout the Runner first sends the termination     *)
(* signal to the whole process group, then waits the grace period, and     *)
(* sends the kill signal to the group only if the program is still alive   *)
(* when the grace period ends; the kill is never sent before the           *)
(* termination signal, and no signal is sent to a run that did not time    *)
(* out.                                                                    *)
(***************************************************************************)
C28_GracefulThenForceful ==
    \A i \in DOMAIN calls :
        LET c == calls[i]
        IN  /\ c.signals \in {<<>>, <<TermGroup>>, <<TermGroup, KillGroup>>}
            /\ c.signals # <<>> <=> c.kind = "timeout"
            /\ (i = Len(calls) /\ pc = "grace") => c.signals = <<TermGroup>>
            /\ (c.kind = "timeout" /\ (i < Len(calls) \/ pc # "grace")) =>
                   (c.signals = <<TermGroup, KillGroup>> <=> c.ignoresTerm)

\* the program ignored the termination signal, was killed after the grace
\* wait, and its run has returned
C28_Witness ==
    /\ pc = "compare"
    /\ Cur.kind = "timeout"
    /\ Cur.ignoresTerm
    /\ Cur.signals = <<TermGroup, KillGroup>>

\* the probe of a candidate exited successfully: with code 0, and for the
\* Python interpreter of the compiler app as a Python 3 ("3." in its output)
ProbeSucceeded(o) ==
    IF app = "compiler" /\ language = "py" THEN o = "zero3" ELSE ExitZero(o)

(***************************************************************************)
(* C30: for every language, resolve probes the candidates in their fixed   *)
(* list order and returns the first candidate whose version probe exits    *)
(* successfully; a candidate is returned only if no earlier candidate's    *)
(* probe exited successfully, and Unavailable is returned exactly when no  *)
(* candidate's probe exits successfully - a resolution that has ended      *)
(* without a successful probe has probed every candidate and returned      *)
(* Unavailable.                                                            *)
(***************************************************************************)
C30_FirstSuccessfulCandidate ==
    LET probed == resolving.probed
        result == resolving.result
        someSuccess == \E j \in DOMAIN probed : ProbeSucceeded(probed[j])
    IN  /\ result.tag = "found" =>
               /\ result.index = Len(probed)
               /\ ProbeSucceeded(probed[result.index])
               /\ \A j \in 1..(result.index - 1) : ~ProbeSucceeded(probed[j])
        /\ result.tag = "unavailable" => ~someSuccess
        /\ (result.tag \notin {"none", "idle"} /\ ~someSuccess) =>
               /\ result.tag = "unavailable"
               /\ Len(probed) = Len(Candidates(app, language))
        /\ (result.tag = "none" /\ probed # <<>>) => ~someSuccess

(***************************************************************************)
(* Vocabulary of the dispatcher claims.                                    *)
(***************************************************************************)
\* the verdict values, as opposed to the pending mark
VerdictValues == {"AC", "WA", "TLE", "RE", "CE", "IE"}

\* the submissions whose judging is under way
BeingJudged == {s \in Submissions : web[s].pc = "judging"}

\* a fixed pool smaller than the number of submissions that can be posted
PoolSize == MaxSubmissions - 1

(***************************************************************************)
(* C22: each submission gets exactly one verdict, written to the store     *)
(* once: from the creation of its record on, a reader sees 'pending' or    *)
(* the final verdict, and the stored verdict never changes from one        *)
(* verdict value to another.                                               *)
(***************************************************************************)
C22_OneVerdictWrittenOnce ==
    \A s \in Submissions :
        /\ \A i, j \in DOMAIN store[s] :
               (store[s][i] \in VerdictValues /\ store[s][j] \in VerdictValues) =>
                   store[s][i] = store[s][j]
        /\ \A v \in seen[s] : v = "PE" \/ v = web[s].verdict

(***************************************************************************)
(* C23: at most N submissions, N the fixed size of the worker pool, are    *)
(* being judged at the same time under any interleaving of submit          *)
(* requests; further submissions wait and are not run concurrently.        *)
(***************************************************************************)
C23_AtMostPoolSizeJudged ==
    Cardinality(BeingJudged) <= PoolSize

(***************************************************************************)
(* C24: submit returns to its caller before the judging of the submission  *)
(* has completed, and a poll of the record yields 'pending' until the      *)
(* terminal verdict exists and that verdict afterwards.                    *)
(***************************************************************************)
C24_SubmitReturnsBeforeVerdict ==
    \A s \in Submissions :
        /\ web[s].verdict # "none" => web[s].pc = "responded"
        /\ web[s].verdict = "none" => seen[s] \subseteq {"PE"}
        /\ web[s].verdict # "none" => seen[s] \subseteq {"PE", web[s].verdict}

(***************************************************************************)
(* Vocabulary of the claims about concurrent runs.                         *)
(***************************************************************************)
\* the threads that are inside a run_code call
ActiveThreads == {t \in Threads : runs[t].pc # "idle"}

\* the directories the run of a thread keeps its files in
WorkspaceDirs(t) ==
    {RunDir(app, runs[t].id, runs[t].suffix, k) : k \in FileKinds}

\* the run of the thread has written its files and not yet removed them
HoldsFiles(t) ==
    /\ runs[t].pc \in {"exec", "wait", "read", "cleanup"}
    /\ runs[t].exit # "fault"

(***************************************************************************)
(* C25: no two runs that are active at the same time use the same          *)
(* workspace directory, and no run deletes or overwrites a file that       *)
(* belongs to another active run: the source and the stdin file of an      *)
(* active run stay on disk as that run wrote them.                         *)
(***************************************************************************)
C25_WorkspacesNotShared ==
    /\ \A t1, t2 \in ActiveThreads :
           t1 # t2 => WorkspaceDirs(t1) \cap WorkspaceDirs(t2) = {}
    /\ \A t \in Threads :
           HoldsFiles(t) =>
               \A k \in {"code", "input"} :
                   /\ Exists(fsys, PathOf(runs[t], k))
                   /\ \A f \in FilesAt(fsys, PathOf(runs[t], k)) :
                          f.owner = <<t, runs[t].run>>

(***************************************************************************)
(* C26: with the environment held fixed, two run_code calls with the same  *)
(* language, source and stdin, for a program that terminates within the    *)
(* timeout, give the same kind of outcome and, on success, the same        *)
(* stdout - whatever runs came before them or go on at the same time.      *)
(***************************************************************************)
C26_RunDeterministic ==
    \A t1, t2 \in Threads :
        runs[t1].source = runs[t2].source =>
            \A o1 \in runs[t1].outcomes, o2 \in runs[t2].outcomes :
                o1.stdin = o2.stdin =>
                    /\ o1.exit = o2.exit
                    /\ o1.result = o2.result

\* two threads have run the same source on the same stdin at the same time:
\* the first entered run_code before the second and is about to return its
\* output, the second has returned the same output already
C26_Witness ==
    /\ app = "compiler"
    /\ runs[1].source = <<"e">>
    /\ runs[2].source = <<"e">>
    /\ runs[1].pc = "cleanup" /\ runs[1].id = Uuid(0)
    /\ runs[1].exit = "zero"
    /\ runs[1].result = Text(runs[1].stdin)
    /\ runs[2].pc = "idle"
    /\ \E o2 \in runs[2].outcomes :
           /\ o2.stdin = runs[1].stdin
           /\ o2.exit = "zero"
           /\ o2.result = Text(o2.stdin)

(***************************************************************************)
(* C39: normalize_output is idempotent and total: normalizing the text it  *)
(* returned gives that text again, None is treated as the empty text, and  *)
(* the text it returns holds no \r, no line that ends in whitespace and no *)
(* empty last line.                                                        *)
(***************************************************************************)
C39_NormalizeIdempotent ==
    \A i \in DOMAIN comparison.norm :
        LET c == comparison.norm[i]
            lines == SplitLines(c.result)
        IN  /\ c.arg = None => c.result = normalize_output(<<>>)
            /\ \A k \in DOMAIN c.result : c.result[k] # "\r"
            /\ \A k \in DOMAIN lines : rstrip(lines[k]) = lines[k]
            /\ lines[Len(lines)] = <<>> => c.result = <<>>
            /\ i > 1 => c.result = comparison.norm[i - 1].result

\* a text that ends in \r\n was normalized to a different text, and that text was normalized again
C39_Witness ==
    /\ Len(comparison.norm) = 2
    /\ comparison.norm[1].arg = Text(<<"5", "\r", "\n">>)
    /\ comparison.norm[1].result = <<"5">>
    /\ comparison.norm[2].result = <<"5">>

(***************************************************************************)
(* Vocabulary of the claim about the state of the resolution.              *)
(***************************************************************************)
\* the first probe of the run that ends the loop, 0 if none does
FirstDeciding(probed) ==
    LET deciding == {j \in DOMAIN probed :
                        \/ ProbeAccepted(app, language, probed[j])
                        \/ ProbeEscapes(app, language, probed[j])}
    IN  IF deciding = {} THEN 0
        ELSE CHOOSE j \in deciding : \A k \in deciding : j <= k

\* what the answers the environment gave in this run determine
DeterminedByRun(probed) ==
    LET j == FirstDeciding(probed)
    IN  IF j = 0
        THEN {Unresolved, [tag |-> "unavailable", index |-> 0]}
        ELSE IF ProbeAccepted(app, language, probed[j])
        THEN {[tag |-> "found", index |-> j]}
        ELSE {[tag |-> "raised", index |-> j]}

(***************************************************************************)
(* C31: the toolchain resolution keeps no state: every run probes the      *)
(* toolchain anew before it uses it, and the toolchain a run chooses       *)
(* depends only on the answers the environment gives to the probes of that *)
(* run, never on what the resolution of an earlier run returned.           *)
(***************************************************************************)
C31_ResolutionKeepsNoState ==
    LET probed == resolving.probed
        result == resolving.result
    IN  /\ result.tag = "found" =>
               /\ probed # <<>>
               /\ result.index = Len(probed)
               /\ ProbeAccepted(app, language, probed[result.index])
        /\ result.tag # "idle" => result \in DeterminedByRun(probed)
        /\ result.tag = "unavailable" => Len(probed) = Len(Candidates(app, language))

\* the second run of the compiler app finds no interpreter although the
\* run before it had found the first candidate
C31_Witness ==
    /\ app = "compiler"
    /\ resolving.run = 2
    /\ resolving.previous = [tag |-> "found", index |-> 1]
    /\ resolving.result.tag = "unavailable"

(***************************************************************************)
(* Vocabulary of the claims about the evaluator as a whole.                *)
(***************************************************************************)
\* the codes of Submission.VERDICT_CHOICES
VerdictChoices == VerdictValues \cup {"PE"}

(***************************************************************************)
(* C33: the judge of the submit app never returns AC for a submission one  *)
(* of whose executed cases timed out, failed to compile or raised inside   *)
(* run_code, whatever the expected output of that case is.                 *)
(***************************************************************************)
C33_SubmitNoAcceptAfterFailure ==
    (app = "submit" /\ verdict = "AC") =>
        \A i \in DOMAIN calls :
            calls[i].kind \notin {"timeout", "compile_timeout", "compile_error", "fault"}

(***************************************************************************)
(* C34: a verdict of Accepted implies that the runner was invoked at least *)
(* once for the submission and that every invocation succeeded: a          *)
(* submission whose code was never compiled or executed is never Accepted, *)
(* also when the problem has no stored cases and a corpus file is missing. *)
(***************************************************************************)
C34_AcceptedOnlyAfterSuccessfulRuns ==
    verdict = "AC" =>
        /\ calls # <<>>
        /\ \A i \in DOMAIN calls : calls[i].kind = "success"

(***************************************************************************)
(* C35: handle_submission rejects a request whose code is empty after      *)
(* trimming or whose language is not one of py, cpp, c, and a rejection    *)
(* changes nothing: no Submission record is created and the runner is not  *)
(* invoked.                                                                *)
(***************************************************************************)
C35_RejectedRequestChangesNothing ==
    \A s \in Submissions :
        (/\ app = "core"
         /\ web[s].pc # "new"
         /\ (strip(web[s].code) = <<>> \/ web[s].language \notin {"py", "cpp", "c"})) =>
            /\ web[s].pc = "responded"
            /\ store[s] = <<>>
            /\ ~web[s].invoked
            /\ web[s].verdict = "none"

\* one request with a blank code and one with the language java have been
\* answered, the second while nothing else went on
C35_Witness ==
    /\ app = "core"
    /\ web[1].pc = "responded" /\ web[1].code = <<" ">> /\ web[1].language = "py"
    /\ web[2].pc = "responded" /\ web[2].code = <<"x">> /\ web[2].language = "java"

(***************************************************************************)
(* C36: whenever handle_submission returns after it created a Submission   *)
(* record, the verdict stored in the record is the verdict the evaluator   *)
(* computed for it: a record is never left with the placeholder verdict it *)
(* was created with when the evaluator computed another verdict or when a  *)
(* fault occurred during processing.                                       *)
(***************************************************************************)
C36_StoredVerdictIsComputedVerdict ==
    \A s \in Submissions :
        (app = "core" /\ web[s].pc = "responded" /\ RecordExists(store, s)) =>
            store[s][Len(store[s])] = web[s].verdict

(***************************************************************************)
(* Vocabulary of the claims about the AI review.                           *)
(***************************************************************************)
\* the answers after which the same model is asked again
RetriedResponses == {"503", "429", "timeout", "connection"}

\* the number of requests sent in the review
RECURSIVE TotalRequests(_)
TotalRequests(sent) ==
    IF sent = <<>> THEN 0 ELSE Head(sent).requests + TotalRequests(Tail(sent))

(***************************************************************************)
(* C37: try_ai_review_with_model sends at most max_retries (3) requests    *)
(* for one model and always returns a result; it sends a further request   *)
(* to the same model only after a 503, a 429, a request timeout or a       *)
(* connection error on an attempt that is not the last, and returns at     *)
(* once, without another request, on a 200, 400, 403, 404, any other       *)
(* status or any other exception.                                          *)
(***************************************************************************)
C37_RetriesPerModel ==
    LET trying == review.state = "trying"
        called == DOMAIN review.sent
    IN  /\ \A m \in called : review.sent[m].requests <= 3
        /\ \A m \in called : (m \in DOMAIN review.results) <=> ~(trying /\ m = review.model)
        /\ (trying /\ review.attempt > 0) =>
               /\ review.last \in RetriedResponses
               /\ review.attempt < 3
        /\ trying => review.sent[review.model].requests = review.attempt
        /\ \A m \in DOMAIN review.results :
               /\ review.sent[m].requests >= 1
               /\ review.results[m].cause \in RetriedResponses =>
                      review.sent[m].requests = 3
        /\ (review.last \notin RetriedResponses \cup {"none"}) =>
               /\ review.results # <<>>
               /\ review.results[Len(review.results)].cause = review.last
               /\ trying => review.attempt = 0

\* the first model was asked three times and gave up on a timeout; the second
\* model answered 404 to its first request and was not asked again
C37_Witness ==
    /\ review.state = "trying"
    /\ review.model = 3
    /\ review.sent[1].requests = 3
    /\ review.results[1].cause = "timeout"
    /\ review.sent[2].requests = 1
    /\ review.results[2].cause = "404"

(***************************************************************************)
(* C38: ai_review_submission tries the models in the fixed order           *)
(* gemini-1.5-flash-latest, gemini-1.5-flash, gemini-pro: a model is tried *)
(* only if every earlier model returned a failure marked should_retry; the *)
(* first success or the first failure not marked should_retry ends the     *)
(* review with that result and no further request; if all three fail with  *)
(* should_retry the 'all models unavailable' error is returned; at most 9  *)
(* requests are sent in all.                                               *)
(***************************************************************************)
C38_ModelFallbackOrder ==
    LET sent == review.sent
        results == review.results
        order == <<"gemini-1.5-flash-latest", "gemini-1.5-flash", "gemini-pro">>
        passedOn(m) == ~results[m].success /\ results[m].should_retry
    IN  /\ Len(sent) <= 3
        /\ \A m \in DOMAIN sent :
               /\ sent[m].name = order[m]
               /\ \A k \in 1..(m - 1) : k \in DOMAIN results /\ passedOn(k)
        /\ \A m \in DOMAIN results :
               ~passedOn(m) =>
                   /\ m = Len(results)
                   /\ m = Len(sent)
                   /\ review.state = "responded"
                   /\ review.response = (IF results[m].success THEN "review"
                                         ELSE results[m].cause)
        /\ (Len(results) = 3 /\ \A m \in DOMAIN results : passedOn(m)) <=>
               review.response = "all models unavailable"
        /\ review.state = "responded" => review.response # "none"
        /\ TotalRequests(sent) <= 9

\* all three models were asked three times and the review ended with the
\* error that no model is available
C38_Witness ==
    /\ review.state = "responded"
    /\ review.response = "all models unavailable"
    /\ TotalRequests(review.sent) = 9
    /\ review.results[1].cause = "503"
    /\ review.results[3].cause = "429"

====
